---- MODULE Spec2Model ----
(***************************************************************************)
(* Content-stream token reconstruction, matching and rewriting engine of   *)
(* glyph_mapper: TJArrayProcessorV2 (single-instruction path) and          *)
(* CrossArrayProcessor (engine: single-instruction pass followed by the    *)
(* cross-instruction pass).                                                *)
(*                                                                         *)
(* A Python str is a sequence of one-character strings.  Control           *)
(* characters carry their ASCII names: "FF" = \x0c, "VT" = \x0b,           *)
(* "SO" = \x0e, "SI" = \x0f, "CR" = \r, "US" = \x1f, "LF" = \n,            *)
(* "TAB" = \t, "NUL" = \x00; "EACUTE" is a non-ASCII letter.  Positions are 0-based and ranges half-open,  *)
(* as in the source: text[start:end] is SubSeq(text, start + 1, end).      *)
(***************************************************************************)
EXTENDS Integers, Sequences, FiniteSets, TLC

VARIABLES
    mapping,            \* the exact table, an ordered dict: sequence of [k, v]
    v2pc,               \* position of the caller of process_tj_array
    array_obj,          \* process_tj_array: the array handed in
    new_array,          \* process_tj_array: the array returned
    modified,           \* process_tj_array: the flag returned
    tj_combined_text,   \* process_tj_array: its combined_text
    tj_replacements,    \* process_tj_array: its replacements (matches applied)
    lists,              \* heap of Python lists of instructions, by list id
    arrays,             \* heap of ArrayObjects, by array id
    pc,                 \* position inside process_content_operations
    cur,                \* id of the list the engine currently works on
    v2_modified,        \* process_content_operations: flag of phase 1
    any_modified,       \* _apply_cross_array_processing: its flag
    cross_matches,      \* matches still to be applied (applied from the end)
    applied_log,        \* per applied match: what the rewriter returned
    result,             \* what process_content_operations returned
    given,              \* the caller's instructions and arrays as handed in
    app_pc,             \* position inside apply_word_mapping and its handler
    mode,               \* apply_word_mapping: the mode argument
    pdf_bytes,          \* apply_word_mapping: the PDF handed in
    user_mapping,       \* apply_word_mapping: the mapping handed in
    clean_mapping,      \* apply_word_mapping: the mapping after cleaning
    overlays,           \* _apply_overlay_mode_mapping: the captured targets
    stage_bytes,        \* the PDF the running handler currently holds
    trace,              \* the calls made so far, in order
    outcome,            \* what apply_word_mapping returned or raised
    threads,            \* per thread: the locals of its engine invocation
    running,            \* the thread whose processor is executing
    current_logger,     \* logger.py: _current_logger (0 is None)
    loggers,            \* heap of PDFProcessingLogger objects: lines written
    par_heap,           \* heap of ArrayObjects of the two invocations
    callee,             \* the function a caller of a helper function runs
    call_args,          \* the arguments it passes
    call_locals,        \* the locals of the function while it runs
    returned            \* what the function returned

vars == <<mapping, v2pc, array_obj, new_array, modified, tj_combined_text,
          tj_replacements, lists, arrays, pc,
          cur, v2_modified, any_modified, cross_matches, applied_log, result,
          given, app_pc, mode, pdf_bytes, user_mapping, clean_mapping, overlays,
          stage_bytes, trace, outcome, threads, running, current_logger,
          loggers, par_heap, callee, call_args, call_locals, returned>>

v2vars == <<v2pc, array_obj, new_array, modified, tj_combined_text,
           tj_replacements>>
engvars == <<lists, arrays, pc, cur, v2_modified, any_modified, cross_matches,
             applied_log, result, given>>
appvars == <<app_pc, mode, pdf_bytes, user_mapping, clean_mapping, overlays,
             stage_bytes, trace, outcome>>
parvars == <<threads, running, current_logger, loggers, par_heap>>
callvars == <<callee, call_args, call_locals, returned>>

(***************************************************************************)
(* Characters and Python's str methods.                                    *)
(***************************************************************************)
Upper == <<"A","B","C","D","E","F","G","H","I","J","K","L","M",
           "N","O","P","Q","R","S","T","U","V","W","X","Y","Z">>
Lower == <<"a","b","c","d","e","f","g","h","i","j","k","l","m",
           "n","o","p","q","r","s","t","u","v","w","x","y","z">>
Digits == {"0","1","2","3","4","5","6","7","8","9"}
\* string.punctuation ("DQUOTE", "BACKSLASH" and "BACKTICK" name the three
\* characters that cannot be written in a string here)
Punctuation == {"!", "DQUOTE", "#", "$", "%", "&", "'", "(", ")", "*", "+",
                ",", "-", ".", "/", ":", ";", "<", "=", ">", "?", "@", "[",
                "BACKSLASH", "]", "^", "_", "BACKTICK", "{", "|", "}", "~"}
Letters == {Upper[i] : i \in 1..26} \cup {Lower[i] : i \in 1..26}

\* string.printable: digits + ascii_letters + punctuation + whitespace
StringPrintable == Digits \cup Letters \cup Punctuation
                   \cup {" ", "TAB", "LF", "CR", "VT", "FF"}

\* what \s matches in a str pattern
Whitespace == {" ", "TAB", "LF", "CR", "VT", "FF", "US"}

\* what \d matches, and str.isdigit, on ASCII text
IsDigit(c) == c \in Digits

\* str.casefold of one ASCII character
casefold_char(c) ==
    IF \E i \in 1..26 : Upper[i] = c
    THEN Lower[CHOOSE i \in 1..26 : Upper[i] = c]
    ELSE c

\* str.casefold (and str.lower) on ASCII text
casefold(s) == [i \in 1..Len(s) |-> casefold_char(s[i])]

\* s[a:b] with 0 <= a and b <= len(s)
Slice(s, a, b) == SubSeq(s, a + 1, b)

\* sub == s[pos:pos+len(sub)]
OccursAt(s, pos, sub) ==
    /\ pos + Len(sub) <= Len(s)
    /\ \A i \in 1..Len(sub) : s[pos + i] = sub[i]

\* `sub in s`
Contains(s, sub) == \E pos \in 0..(Len(s) - Len(sub)) : OccursAt(s, pos, sub)

\* "".join(parts)
RECURSIVE Join(_)
Join(parts) == IF parts = <<>> THEN <<>> ELSE Head(parts) \o Join(Tail(parts))

\* s.replace(old, new) from position pos on, for non-empty old
RECURSIVE ReplaceFrom(_, _, _, _)
ReplaceFrom(s, pos, old, new) ==
    IF pos >= Len(s) THEN <<>>
    ELSE IF OccursAt(s, pos, old)
         THEN new \o ReplaceFrom(s, pos + Len(old), old, new)
         ELSE <<s[pos + 1]>> \o ReplaceFrom(s, pos + 1, old, new)

\* str.replace (an empty old inserts new before every character and at the end)
Replace(s, old, new) ==
    IF old = <<>> THEN Join([i \in 1..Len(s) |-> new \o <<s[i]>>]) \o new
    ELSE ReplaceFrom(s, 0, old, new)

(***************************************************************************)
(* Items of a positioned array (PyPDF2.generic).                           *)
(***************************************************************************)
TextStringObject(s) == [kind |-> "text", s |-> s, n |-> 0]
NumberObject(n) == [kind |-> "number", s |-> <<>>, n |-> n]
\* any other item (FloatObject, ByteStringObject, ...)
OtherObject == [kind |-> "other", s |-> <<>>, n |-> 0]

SPACE_THRESHOLD == -120

\* Python's None where an owner index is expected
None == -1

(***************************************************************************)
(* dict: an ordered sequence of [k, v] with distinct keys.                 *)
(***************************************************************************)
DictHas(d, key) == \E i \in 1..Len(d) : d[i].k = key

\* d[key], for a key of d
DictAt(d, key) == d[CHOOSE i \in 1..Len(d) : d[i].k = key].v

\* d.get(key): found is FALSE where Python returns None
DictGet(d, key) ==
    IF DictHas(d, key) THEN [found |-> TRUE, v |-> DictAt(d, key)]
    ELSE [found |-> FALSE, v |-> <<>>]

\* d[key] = value
DictSet(d, key, value) ==
    IF DictHas(d, key)
    THEN [i \in 1..Len(d) |-> IF d[i].k = key THEN [k |-> key, v |-> value] ELSE d[i]]
    ELSE Append(d, [k |-> key, v |-> value])

\* {key.casefold(): value for key, value in effective_mapping.items()}
RECURSIVE casefold_table(_, _)
casefold_table(m, i) ==
    IF i = 0 THEN <<>>
    ELSE DictSet(casefold_table(m, i - 1), casefold(m[i].k), m[i].v)

\* the folded table handed to the processors
mapping_cf == casefold_table(mapping, Len(mapping))

(***************************************************************************)
(* The pattern: _build_pattern and re's finditer over an alternation of    *)
(* escaped literals under re.IGNORECASE.                                   *)
(***************************************************************************)
\* a variant of sorted_longest_first without reverse=True (shortest first)
RECURSIVE sorted_shortest_first(_)
sorted_shortest_first(words) ==
    IF words = {} THEN <<>>
    ELSE LET w == CHOOSE x \in words : \A y \in words : Len(x) <= Len(y)
         IN <<w>> \o sorted_shortest_first(words \ {w})

\* sorted(set(words), key=len, reverse=True)
RECURSIVE sorted_longest_first(_)
sorted_longest_first(words) ==
    IF words = {} THEN <<>>
    ELSE LET w == CHOOSE x \in words : \A y \in words : Len(y) <= Len(x)
         IN <<w>> \o sorted_longest_first(words \ {w})

\* _build_pattern(words, ignore_case=True): none is TRUE for "no pattern"
\* a variant of build_pattern without the `if not ordered` test
build_pattern_always_compiled(words) ==
    [none |-> FALSE, alts |-> sorted_longest_first(words)]

build_pattern(words) ==
    LET ordered == sorted_longest_first(words)
    IN [none |-> ordered = <<>>, alts |-> ordered]

\* the pattern handed to the processors
pattern == build_pattern({mapping[i].k : i \in 1..Len(mapping)})

\* the escaped literal `word` matches text at pos, ignoring case
LiteralMatchesAt(text, pos, word) ==
    /\ pos + Len(word) <= Len(text)
    /\ \A i \in 1..Len(word) : casefold_char(text[pos + i]) = casefold_char(word[i])

\* the alternation at pos: the first alternative, in order, that matches;
\* 0 when none does
FirstAlternative(text, pos, alts) ==
    IF \E j \in 1..Len(alts) : LiteralMatchesAt(text, pos, alts[j])
    THEN CHOOSE j \in 1..Len(alts) :
            /\ LiteralMatchesAt(text, pos, alts[j])
            /\ \A h \in 1..(j - 1) : ~LiteralMatchesAt(text, pos, alts[h])
    ELSE 0

\* pattern.finditer(text) from pos on: the spans, left to right, non-overlapping
RECURSIVE finditer(_, _, _)
finditer(alts, text, pos) ==
    IF pos >= Len(text) THEN <<>>
    ELSE LET j == FirstAlternative(text, pos, alts)
         IN IF j = 0 THEN finditer(alts, text, pos + 1)
            ELSE <<[start |-> pos, end |-> pos + Len(alts[j])]>>
                 \o finditer(alts, text, pos + Len(alts[j]))

(***************************************************************************)
(* TJArrayProcessorV2                                                      *)
(***************************************************************************)
\* a variant of clean_special_chars that filters before it substitutes
clean_filtered_first(text) ==
    LET r0 == SelectSeq(text, LAMBDA c : c \in StringPrintable \/ c = "LF")
        r1 == Replace(r0, <<"FF">>, <<"f", "i">>)
        r2 == Replace(r1, <<"VT">>, <<"f", "l">>)
        r3 == Replace(r2, <<"SO">>, <<"f", "f">>)
        r4 == Replace(r3, <<"SI">>, <<"f", "f", "i">>)
        r5 == Replace(r4, <<"CR">>, <<>>)
    IN Replace(r5, <<"US">>, <<>>)

\* _clean_special_chars
clean_special_chars(text) ==
    LET r1 == Replace(text, <<"FF">>, <<"f", "i">>)
        r2 == Replace(r1, <<"VT">>, <<"f", "l">>)
        r3 == Replace(r2, <<"SO">>, <<"f", "f">>)
        r4 == Replace(r3, <<"SI">>, <<"f", "f", "i">>)
        r5 == Replace(r4, <<"CR">>, <<>>)
        r6 == Replace(r5, <<"US">>, <<>>)
    IN SelectSeq(r6, LAMBDA c : c \in StringPrintable \/ c = "LF")

\* a variant of resolve_replacement that tries the folded table first
resolve_replacement_folded_first(token) ==
    LET replacement == DictGet(mapping_cf, casefold(token))
    IN IF replacement.found THEN replacement
       ELSE DictGet(mapping, token)

\* _resolve_replacement
resolve_replacement(token) ==
    LET replacement == DictGet(mapping, token)
    IN IF replacement.found THEN replacement
       ELSE DictGet(mapping_cf, casefold(token))

\* process_tj_array, step 1, a TextStringObject at array index array_index,
\* seen after the items before it gave acc
extract_text_item(acc, array_index, raw_text, cleaned_text) ==
    [text_segments |-> Append(acc.text_segments,
        [array_index |-> array_index, raw |-> raw_text, clean |-> cleaned_text,
         start |-> Len(acc.combined_text),
         end |-> Len(acc.combined_text) + Len(cleaned_text)]),
     char_owner_indices |-> acc.char_owner_indices
        \o [p \in 1..Len(cleaned_text) |-> Len(acc.text_segments)],
     combined_text |-> acc.combined_text \o cleaned_text]

\* a variant of extract_item that infers a space only below the threshold
extract_item_below_threshold(acc, item, array_index) ==
    IF item.kind = "text"
    THEN extract_text_item(acc, array_index, item.s, clean_special_chars(item.s))
    ELSE IF item.kind = "number" /\ item.n < SPACE_THRESHOLD
    THEN [text_segments |-> acc.text_segments,
          char_owner_indices |-> Append(acc.char_owner_indices, None),
          combined_text |-> Append(acc.combined_text, " ")]
    ELSE acc

\* process_tj_array, step 1, one turn of the loop
extract_item(acc, item, array_index) ==
    IF item.kind = "text"
    THEN extract_text_item(acc, array_index, item.s, clean_special_chars(item.s))
    ELSE IF item.kind = "number" /\ item.n <= SPACE_THRESHOLD
    THEN [text_segments |-> acc.text_segments,
          char_owner_indices |-> Append(acc.char_owner_indices, None),
          combined_text |-> Append(acc.combined_text, " ")]
    ELSE acc

\* process_tj_array, step 1, items 0 .. i-1: segments, owners, combined text
RECURSIVE extract_segments(_, _)
extract_segments(arr, i) ==
    IF i = 0 THEN [text_segments |-> <<>>, char_owner_indices |-> <<>>,
                   combined_text |-> <<>>]
    ELSE extract_item(extract_segments(arr, i - 1), arr[i], i - 1)

\* a variant of survives without the `replacement == original` test
survives_when_found(original, replacement) ==
    replacement.found /\ replacement.v # <<>>

\* `if not replacement or replacement == original: continue`
survives(original, replacement) ==
    replacement.found /\ replacement.v # <<>> /\ replacement.v # original

\* what one hit of _apply_replacements appends to replacements
replacement_entry(hit, original, replacement) ==
    IF survives(original, replacement)
    THEN <<[start |-> hit.start, end |-> hit.end, original |-> original,
            replacement |-> replacement.v]>>
    ELSE <<>>

\* match.group(0) and its resolution
resolved_hit(hit, original) ==
    replacement_entry(hit, original, resolve_replacement(original))

\* the hits of _apply_replacements that survive resolution, in scan order
RECURSIVE resolve_hits(_, _, _)
resolve_hits(text, hits, i) ==
    IF i > Len(hits) THEN <<>>
    ELSE resolved_hit(hits[i], Slice(text, hits[i].start, hits[i].end))
         \o resolve_hits(text, hits, i + 1)

\* replaced_text of _apply_replacements
RECURSIVE replaced_text_from(_, _, _, _)
replaced_text_from(text, repls, i, cursor) ==
    IF i > Len(repls) THEN Slice(text, cursor, Len(text))
    ELSE Slice(text, cursor, repls[i].start) \o repls[i].replacement
         \o replaced_text_from(text, repls, i + 1, repls[i].end)

\* _apply_replacements once the surviving hits are known
replacement_result_of(text, repls) ==
    IF repls = <<>>
    THEN [none |-> TRUE, replaced_text |-> <<>>, replacements |-> <<>>]
    ELSE [none |-> FALSE,
          replaced_text |-> replaced_text_from(text, repls, 1, 0),
          replacements |-> repls]

\* _apply_replacements: none is TRUE where Python returns None
apply_replacements(text) ==
    IF pattern.none THEN [none |-> TRUE, replaced_text |-> <<>>, replacements |-> <<>>]
    ELSE replacement_result_of(text,
            resolve_hits(text, finditer(pattern.alts, text, 0), 1))

\* a variant of resolve_owner_for_replacement that searches forward before
\* it searches backward
resolve_owner_forward_first(owners, start, end) ==
    LET lo == IF start < Len(owners) THEN start ELSE Len(owners)
        hi == IF end < Len(owners) THEN end ELSE Len(owners)
        back == {idx \in 0..(lo - 1) : owners[idx + 1] # None}
        fwd == {idx \in hi..(Len(owners) - 1) : owners[idx + 1] # None}
    IN IF start < Len(owners) /\ owners[start + 1] # None THEN owners[start + 1]
       ELSE IF fwd # {}
            THEN owners[(CHOOSE idx \in fwd : \A o \in fwd : idx <= o) + 1]
       ELSE IF back # {}
            THEN owners[(CHOOSE idx \in back : \A o \in back : o <= idx) + 1]
       ELSE None

\* _resolve_owner_for_replacement
resolve_owner_for_replacement(owners, start, end) ==
    LET lo == IF start < Len(owners) THEN start ELSE Len(owners)
        hi == IF end < Len(owners) THEN end ELSE Len(owners)
        back == {idx \in 0..(lo - 1) : owners[idx + 1] # None}
        fwd == {idx \in hi..(Len(owners) - 1) : owners[idx + 1] # None}
    IN IF start < Len(owners) /\ owners[start + 1] # None THEN owners[start + 1]
       ELSE IF back # {}
            THEN owners[(CHOOSE idx \in back : \A o \in back : o <= idx) + 1]
       ELSE IF fwd # {}
            THEN owners[(CHOOSE idx \in fwd : \A o \in fwd : idx <= o) + 1]
       ELSE None

\* process_tj_array, step 2: repl's characters under one owner, then the rest
rebuilt_with(before_chars, before_owners, repl, owner_index, rest) ==
    [chars |-> before_chars \o repl.replacement \o rest.chars,
     owners |-> before_owners
                \o [p \in 1..Len(repl.replacement) |-> owner_index]
                \o rest.owners]

\* process_tj_array, step 2: characters and owners after the replacements
RECURSIVE rebuild(_, _, _, _, _)
rebuild(text, owners, repls, i, cursor) ==
    IF i > Len(repls)
    THEN [chars |-> Slice(text, cursor, Len(text)),
          owners |-> Slice(owners, cursor, Len(text))]
    ELSE rebuilt_with(Slice(text, cursor, repls[i].start),
                      Slice(owners, cursor, repls[i].start),
                      repls[i],
                      resolve_owner_for_replacement(owners, repls[i].start, repls[i].end),
                      rebuild(text, owners, repls, i + 1, repls[i].end))

\* process_tj_array, step 3: the characters owned by segment `owner`, in order
aggregate(rebuilt, owner) ==
    LET idx == SelectSeq([p \in 1..Len(rebuilt.chars) |-> p],
                         LAMBDA p : rebuilt.owners[p] = owner)
    IN [p \in 1..Len(idx) |-> rebuilt.chars[idx[p]]]

\* the characters _restore_special_chars re-appends
SuffixChars == {"FF", "CR", "LF", "TAB", "VT", "SO", "SI"}

\* _restore_special_chars
restore_special_chars(new_text, original_text) ==
    LET tails == {n \in 0..Len(original_text) :
                    \A p \in (Len(original_text) - n + 1)..Len(original_text) :
                        original_text[p] \in SuffixChars}
        n == CHOOSE x \in tails : \A y \in tails : y <= x
    IN new_text \o Slice(original_text, Len(original_text) - n, Len(original_text))

\* a variant of written_item that builds a new string item for every segment
written_item_always_rebuilt(item, segment, new_clean) ==
    [item |-> TextStringObject(restore_special_chars(new_clean, segment.raw)),
     changed |-> new_clean # segment.clean]

\* process_tj_array, step 4: the item appended for a text item, and whether
\* it set modified
written_item(item, segment, new_clean) ==
    IF new_clean = segment.clean THEN [item |-> item, changed |-> FALSE]
    ELSE [item |-> TextStringObject(restore_special_chars(new_clean, segment.raw)),
          changed |-> TRUE]

\* array_index_to_segment.get(array_index), for the index of a text item
segment_of(text_segments, array_index) ==
    CHOOSE k \in 0..(Len(text_segments) - 1) :
        text_segments[k + 1].array_index = array_index

\* process_tj_array, step 4, array index i - 1
write_back(arr, text_segments, rebuilt, i) ==
    IF arr[i].kind # "text" THEN [item |-> arr[i], changed |-> FALSE]
    ELSE written_item(arr[i],
                      text_segments[segment_of(text_segments, i - 1) + 1],
                      aggregate(rebuilt, segment_of(text_segments, i - 1)))

\* process_tj_array, step 4: new_array and modified
written_array(arr, out, text, repls) ==
    [array |-> [i \in 1..Len(arr) |-> out[i].item],
     modified |-> \E i \in 1..Len(arr) : out[i].changed,
     combined_text |-> text,
     replacements |-> repls]

\* process_tj_array, steps 3 and 4
write_all(arr, flat, rebuilt, repls) ==
    written_array(arr,
        [i \in 1..Len(arr) |-> write_back(arr, flat.text_segments, rebuilt, i)],
        flat.combined_text, repls)

\* process_tj_array, steps 2 to 4
rewrite_array(arr, flat, repls) ==
    write_all(arr, flat,
              rebuild(flat.combined_text, flat.char_owner_indices, repls, 1, 0),
              repls)

\* process_tj_array after _apply_replacements
process_flattened(arr, flat, replacement_result) ==
    IF arr = <<>> \/ flat.combined_text = <<>> \/ replacement_result.none
    THEN [array |-> arr, modified |-> FALSE,
          combined_text |-> flat.combined_text, replacements |-> <<>>]
    ELSE rewrite_array(arr, flat, replacement_result.replacements)

\* process_tj_array after step 1
process_flat(arr, flat) ==
    process_flattened(arr, flat, apply_replacements(flat.combined_text))

\* process_tj_array: the array returned and the flag
process_tj_array(arr) == process_flat(arr, extract_segments(arr, Len(arr)))

(***************************************************************************)
(* CrossArrayProcessor: instructions, window text, cross-array matches.    *)
(*                                                                         *)
(* An instruction is the tuple (operands, operator); an operand is an      *)
(* ArrayObject held by reference (its id in the heap `arrays`), a string,  *)
(* or a number.                                                            *)
(***************************************************************************)
ArrayRef(id) == [kind |-> "array", ref |-> id, s |-> <<>>]
StringOperand(s) == [kind |-> "string", ref |-> 0, s |-> s]
NumberOperand == [kind |-> "number", ref |-> 0, s |-> <<>>]

Instruction(operands, operator) == [operands |-> operands, operator |-> operator]

\* `operator == b"TJ" and operands` and isinstance(operands[0], ArrayObject)
IsTJArray(op) ==
    op.operator = "TJ" /\ op.operands # <<>> /\ op.operands[1].kind = "array"

\* _extract_array_text
extract_array_text(arr) ==
    Join([i \in 1..Len(arr) |->
            IF arr[i].kind = "text" THEN clean_special_chars(arr[i].s)
            ELSE IF arr[i].kind = "number" /\ arr[i].n <= -120 THEN <<" ">>
            ELSE <<>>])

\* ' '.join(text_parts)
RECURSIVE JoinWithSpace(_)
JoinWithSpace(parts) ==
    IF parts = <<>> THEN <<>>
    ELSE IF Len(parts) = 1 THEN parts[1]
    ELSE parts[1] \o <<" ">> \o JoinWithSpace(Tail(parts))

\* _build_window_text over the arrays of a window
build_window_text(window_arrays) ==
    JoinWithSpace(SelectSeq([i \in 1..Len(window_arrays) |->
                                extract_array_text(window_arrays[i])],
                            LAMBDA t : t # <<>>))

\* number of consecutive characters from pos on that belong to class
RECURSIVE Run(_, _, _)
Run(text, pos, class) ==
    IF pos < Len(text) /\ text[pos + 1] \in class THEN 1 + Run(text, pos + 1, class)
    ELSE 0

CharAt(text, pos) == IF pos < Len(text) THEN text[pos + 1] ELSE "EOF"

\* (\d+): tried at p3, after (\d) at p0 and a gap of whitespace
decimal_match_digits(text, s, form, p0, p2, gap, p3, n) ==
    IF /\ IsDigit(CharAt(text, p0))
       /\ form = 1 => CharAt(text, p2) = ":"
       /\ form = 2 => gap >= 1
       /\ n >= 1
       /\ CharAt(text, p3 + n) = ":"
    THEN [ok |-> TRUE, start |-> s, end |-> p3 + n + 1,
          digit1 |-> <<text[p0 + 1]>>, digit2 |-> Slice(text, p3, p3 + n)]
    ELSE [ok |-> FALSE, start |-> s, end |-> s, digit1 |-> <<>>, digit2 |-> <<>>]

\* \s*:\s* (form 1) or nothing more (forms 2 and 3) tried at p2
decimal_match_colon(text, s, form, p0, p2, gap, p3) ==
    decimal_match_digits(text, s, form, p0, p2, gap, p3, Run(text, p3, Digits))

\* \s* or \s+ tried after (\d) at p0
decimal_match_gap(text, s, form, p0, gap) ==
    decimal_match_colon(text, s, form, p0, p0 + 1 + gap, gap,
        IF form = 1
        THEN p0 + 1 + gap + 1 + Run(text, p0 + 1 + gap + 1, Whitespace)
        ELSE p0 + 1 + gap)

\* (\d) tried at p0, after the optional (?:=\s*)
decimal_match_digit(text, s, form, p0) ==
    decimal_match_gap(text, s, form, p0, Run(text, p0 + 1, Whitespace))

\* one of split_decimal_patterns tried at start position s:
\*   form 1  (?:=\s*)?(\d)\s*:\s*(\d+):
\*   form 2  (?:=\s*)?(\d)\s+(\d+):
\*   form 3  (?:=\s*)?(\d)\s*(\d+):
\* Every quantifier is followed by a character outside its class, so the
\* greedy choice is the only one that can succeed.
decimal_match_at(text, s, form) ==
    decimal_match_digit(text, s, form,
        IF CharAt(text, s) = "=" THEN s + 1 + Run(text, s + 1, Whitespace) ELSE s)

\* pattern.finditer(window_text) for one of split_decimal_patterns
RECURSIVE decimal_finditer(_, _, _)
decimal_finditer_step(text, pos, form, m) ==
    IF m.ok THEN <<m>> \o decimal_finditer(text, m.end, form)
    ELSE decimal_finditer(text, pos + 1, form)

decimal_finditer(text, pos, form) ==
    IF pos >= Len(text) THEN <<>>
    ELSE decimal_finditer_step(text, pos, form, decimal_match_at(text, pos, form))

\* f"{digit1}.{digit2}:"
reconstructed(m) == m.digit1 \o <<".">> \o m.digit2 \o <<":">>

\* `reconstructed in self.mapping or reconstructed.lower() in self.mapping_cf`
\* (lower() and casefold() agree on every character of the alphabet)
decimal_in_mapping(m) ==
    DictHas(mapping, reconstructed(m)) \/ DictHas(mapping_cf, casefold(reconstructed(m)))

\* the decimal_matches one of split_decimal_patterns appends
decimal_matches_of(ms) ==
    [i \in 1..Len(ms) |->
        [start |-> ms[i].start, end |-> ms[i].end, text |-> reconstructed(ms[i])]]

\* _find_split_decimal_patterns, one pattern of the list
decimal_matches_for(window_text, form) ==
    decimal_matches_of(SelectSeq(decimal_finditer(window_text, 0, form),
                                 decimal_in_mapping))

\* _find_split_decimal_patterns: the custom decimal matches of a window
find_split_decimal_patterns(window_text) ==
    decimal_matches_for(window_text, 1) \o decimal_matches_for(window_text, 2)
    \o decimal_matches_for(window_text, 3)

\* list(self.pattern.finditer(window_text)): span and group(0) of each hit
pattern_matches(window_text, hits) ==
    [h \in 1..Len(hits) |->
        [start |-> hits[h].start, end |-> hits[h].end,
         text |-> Slice(window_text, hits[h].start, hits[h].end)]]

\* a variant of cross_match that appends a match for every token found in a
\* table, also when its replacement is the token itself
cross_match_any_found(i, window_operations, window_text, m, replacement) ==
    IF replacement.found /\ replacement.v # <<>>
    THEN <<[window_start |-> i,
            window_operations |-> window_operations,
            match_start |-> m.start,
            match_end |-> m.end,
            original |-> m.text,
            replacement |-> replacement.v,
            window_text |-> window_text]>>
    ELSE <<>>

\* what _find_cross_array_matches appends for one match of window i
cross_match(i, window_operations, window_text, m, replacement) ==
    IF survives(m.text, replacement)
    THEN <<[window_start |-> i,
            window_operations |-> window_operations,
            match_start |-> m.start,
            match_end |-> m.end,
            original |-> m.text,
            replacement |-> replacement.v,
            window_text |-> window_text]>>
    ELSE <<>>

\* `for match in all_matches`, from the k-th match on
RECURSIVE cross_matches_from(_, _, _, _, _)
cross_matches_from(i, window_operations, window_text, all_matches, k) ==
    IF k > Len(all_matches) THEN <<>>
    ELSE cross_match(i, window_operations, window_text, all_matches[k],
                     resolve_replacement(all_matches[k].text))
         \o cross_matches_from(i, window_operations, window_text, all_matches, k + 1)

\* window i once its text is built: pattern matches, then decimal matches
window_text_matches(i, window_operations, window_text) ==
    cross_matches_from(i, window_operations, window_text,
        pattern_matches(window_text, finditer(pattern.alts, window_text, 0))
        \o find_split_decimal_patterns(window_text),
        1)

\* window i: window_operations holds the instruction index of each member
window_matches_in(i, window) ==
    window_text_matches(i,
        [w \in 1..Len(window) |-> window[w].index],
        build_window_text([w \in 1..Len(window) |-> window[w].array]))

\* a variant of window_of with windows of two instructions
window_of_pairs(tj_operations, i) ==
    SubSeq(tj_operations, i + 1,
           IF i + 2 <= Len(tj_operations) THEN i + 2 ELSE Len(tj_operations))

\* tj_operations[i:i + window_size] with window_size = 3
window_of(tj_operations, i) ==
    SubSeq(tj_operations, i + 1,
           IF i + 3 <= Len(tj_operations) THEN i + 3 ELSE Len(tj_operations))

\* the matches _find_cross_array_matches appends for window i
\* (tj_operations: sequence of [index, array])
window_matches(tj_operations, i) == window_matches_in(i, window_of(tj_operations, i))

\* _find_cross_array_matches, windows 0 .. n-1
RECURSIVE find_cross_array_matches_upto(_, _)
find_cross_array_matches_upto(tj_operations, n) ==
    IF n <= 0 THEN <<>>
    ELSE find_cross_array_matches_upto(tj_operations, n - 1)
         \o window_matches(tj_operations, n - 1)

\* _find_cross_array_matches
find_cross_array_matches(tj_operations) ==
    find_cross_array_matches_upto(tj_operations, Len(tj_operations) - 1)

(***************************************************************************)
(* CrossArrayProcessor: the rewriters.                                     *)
(***************************************************************************)
\* s.split('.')
RECURSIVE split_dot(_)
split_dot(s) ==
    IF \E p \in 1..Len(s) : s[p] = "."
    THEN LET p == CHOOSE q \in 1..Len(s) : s[q] = "." /\ \A h \in 1..(q - 1) : s[h] # "."
         IN <<SubSeq(s, 1, p - 1)>> \o split_dot(SubSeq(s, p + 1, Len(s)))
    ELSE <<s>>

\* re.findall(r'\d', s), and ''.join(c for c in s if c.isdigit())
digits_of(s) == SelectSeq(s, LAMBDA c : c \in Digits)

\* _replace_digit_in_array: none is TRUE where Python returns None
replace_digit_in_array(arr, old_digit, new_digit) ==
    [none |-> ~\E i \in 1..Len(arr) :
                  arr[i].kind = "text" /\ Contains(arr[i].s, old_digit),
     array |-> [i \in 1..Len(arr) |->
                  IF arr[i].kind = "text" /\ Contains(arr[i].s, old_digit)
                  THEN TextStringObject(Replace(arr[i].s, old_digit, new_digit))
                  ELSE arr[i]]]

\* _replace_digit_with_decimal_in_array: `old_digit + ':' in text`
has_digit_colon(item, old_digit) ==
    item.kind = "text" /\ Contains(item.s, old_digit \o <<":">>)

\* _replace_digit_with_decimal_in_array: `old_digit in text and not '.' in text`
has_bare_digit(item, old_digit) ==
    /\ item.kind = "text"
    /\ ~has_digit_colon(item, old_digit)
    /\ Contains(item.s, old_digit)
    /\ ~Contains(item.s, <<".">>)

\* _replace_digit_with_decimal_in_array: none is TRUE where Python returns None
replace_digit_with_decimal_in_array(arr, old_digit, new_digit) ==
    [none |-> ~\E i \in 1..Len(arr) :
                  has_digit_colon(arr[i], old_digit) \/ has_bare_digit(arr[i], old_digit),
     array |-> [i \in 1..Len(arr) |->
                  IF has_digit_colon(arr[i], old_digit)
                  THEN TextStringObject(Replace(arr[i].s, old_digit \o <<":">>,
                                                <<".">> \o new_digit \o <<":">>))
                  ELSE IF has_bare_digit(arr[i], old_digit)
                  THEN TextStringObject(Replace(arr[i].s, old_digit,
                                                <<".">> \o new_digit))
                  ELSE arr[i]]]

\* _create_modified_array_for_cross_replacement, the decimal branch taken
decimal_branch(text, original, orig_parts, repl_parts) ==
    /\ Contains(original, <<".">>) /\ Contains(original, <<":">>)
    /\ Len(orig_parts) = 2 /\ Len(repl_parts) = 2
    /\ Contains(text, orig_parts[1])

\* _create_modified_array_for_cross_replacement, the fallback branch taken
digit_branch(text, orig_digits, repl_digits) ==
    /\ digits_of(text) # <<>> /\ orig_digits # <<>>
    /\ repl_digits # <<>>
    /\ Contains(text, <<orig_digits[1]>>)

\* _create_modified_array_for_cross_replacement, a TextStringObject
cross_replacement_text(item, original, orig_parts, repl_parts, orig_digits, repl_digits) ==
    IF decimal_branch(item.s, original, orig_parts, repl_parts)
    THEN TextStringObject(Replace(item.s, orig_parts[1], repl_parts[1]))
    ELSE IF digit_branch(item.s, orig_digits, repl_digits)
    THEN TextStringObject(Replace(item.s, <<orig_digits[1]>>, <<repl_digits[1]>>))
    ELSE item

\* _create_modified_array_for_cross_replacement: the item written for one item
cross_replacement_item(item, original, replacement) ==
    IF item.kind # "text" THEN item
    ELSE cross_replacement_text(item, original, split_dot(original),
            split_dot(replacement), digits_of(original), digits_of(replacement))

\* _create_modified_array_for_cross_replacement
create_modified_array_for_cross_replacement(arr, original, replacement) ==
    [i \in 1..Len(arr) |-> cross_replacement_item(arr[i], original, replacement)]

\* a variant of store_new_array that writes the new items into the array the
\* instruction already refers to
store_new_array_in_place(operations, heap, op_index, candidate) ==
    IF candidate.none \/ candidate.array = <<>>
    THEN [operations |-> operations, arrays |-> heap, success |-> FALSE]
    ELSE [operations |-> operations,
          arrays |-> [heap EXCEPT ![operations[op_index + 1].operands[1].ref] =
                         candidate.array],
          success |-> TRUE]

\* `if new_array: operations[op_index] = ([new_array], operator)`:
\* candidate is [none, array]; a None or empty array is falsy
store_new_array(operations, heap, op_index, candidate) ==
    IF candidate.none \/ candidate.array = <<>>
    THEN [operations |-> operations, arrays |-> heap, success |-> FALSE]
    ELSE [operations |-> [operations EXCEPT ![op_index + 1] =
                             Instruction(<<ArrayRef(Len(heap) + 1)>>,
                                         operations[op_index + 1].operator)],
          arrays |-> Append(heap, candidate.array),
          success |-> TRUE]

\* _apply_decimal_cross_array_replacement, lines 300-309: the first array
decimal_first_array(operations, heap, first_op_index, orig_digit1, repl_digit1) ==
    IF IsTJArray(operations[first_op_index + 1])
    THEN store_new_array(operations, heap, first_op_index,
            replace_digit_in_array(heap[operations[first_op_index + 1].operands[1].ref],
                                   orig_digit1, repl_digit1))
    ELSE [operations |-> operations, arrays |-> heap, success |-> FALSE]

\* success stays True once set
or_success(r, success) ==
    [operations |-> r.operations, arrays |-> r.arrays, success |-> r.success \/ success]

\* _apply_decimal_cross_array_replacement, lines 311-322: the second array
decimal_second_array(first, second_op_index, orig_digit2, repl_digit2) ==
    IF IsTJArray(first.operations[second_op_index + 1])
    THEN or_success(
            store_new_array(first.operations, first.arrays, second_op_index,
               replace_digit_with_decimal_in_array(
                  first.arrays[first.operations[second_op_index + 1].operands[1].ref],
                  orig_digit2, repl_digit2)),
            first.success)
    ELSE first

\* _apply_decimal_cross_array_replacement once the digits are extracted
decimal_replacement(operations, heap, window_ops, orig_digits, repl_digits) ==
    IF Len(orig_digits) # 2 \/ Len(repl_digits) # 2
    THEN [operations |-> operations, arrays |-> heap, success |-> FALSE]
    ELSE decimal_second_array(
            decimal_first_array(operations, heap, window_ops[1],
                                <<orig_digits[1]>>, <<repl_digits[1]>>),
            window_ops[2], <<orig_digits[2]>>, <<repl_digits[2]>>)

\* _apply_decimal_cross_array_replacement
apply_decimal_cross_array_replacement(operations, heap, match) ==
    IF \/ Len(match.window_operations) < 2
       \/ Len(split_dot(match.original)) # 2
       \/ Len(split_dot(match.replacement)) # 2
    THEN [operations |-> operations, arrays |-> heap, success |-> FALSE]
    ELSE decimal_replacement(operations, heap, match.window_operations,
                             digits_of(match.original), digits_of(match.replacement))

\* _apply_simple_cross_array_replacement
apply_simple_cross_array_replacement(operations, heap, match) ==
    IF IsTJArray(operations[match.window_operations[1] + 1])
    THEN store_new_array(operations, heap, match.window_operations[1],
            [none |-> FALSE,
             array |-> create_modified_array_for_cross_replacement(
                          heap[operations[match.window_operations[1] + 1].operands[1].ref],
                          match.original, match.replacement)])
    ELSE [operations |-> operations, arrays |-> heap, success |-> FALSE]

\* _apply_cross_array_replacement
apply_cross_array_replacement(operations, heap, match) ==
    IF /\ Contains(match.original, <<".">>)
       /\ Contains(match.original, <<":">>)
       /\ Len(match.window_operations) >= 2
    THEN apply_decimal_cross_array_replacement(operations, heap, match)
    ELSE apply_simple_cross_array_replacement(operations, heap, match)

\* _apply_pattern_replacement: one hit applied to result
apply_hit(res, hit, original, replacement) ==
    IF survives(original, replacement)
    THEN Slice(res, 0, hit.start) \o replacement.v \o Slice(res, hit.end, Len(res))
    ELSE res

\* match.group(0) and its resolution
apply_resolved_hit(res, hit, original) ==
    apply_hit(res, hit, original, resolve_replacement(original))

\* _apply_pattern_replacement: the hits i, i-1, .. 1 applied to result
RECURSIVE apply_hits_reversed(_, _, _, _)
apply_hits_reversed(text, hits, i, res) ==
    IF i = 0 THEN res
    ELSE apply_hits_reversed(text, hits, i - 1,
            apply_resolved_hit(res, hits[i], Slice(text, hits[i].start, hits[i].end)))

\* the reversed hits of _apply_pattern_replacement
apply_hits(text, hits) == apply_hits_reversed(text, hits, Len(hits), text)

\* _apply_pattern_replacement
apply_pattern_replacement(text) ==
    IF pattern.none THEN text
    ELSE apply_hits(text, finditer(pattern.alts, text, 0))

\* a variant of v2_array_instruction without the `if array_modified` test
v2_array_instruction_always(op, heap, r) ==
    [op |-> Instruction(<<ArrayRef(Len(heap) + 1)>>, op.operator),
     arrays |-> Append(heap, r.array), modified |-> TRUE]

\* _apply_v2_processor, a TJ array once process_tj_array returned r
v2_array_instruction(op, heap, r) ==
    IF r.modified
    THEN [op |-> Instruction(<<ArrayRef(Len(heap) + 1)>>, op.operator),
          arrays |-> Append(heap, r.array), modified |-> TRUE]
    ELSE [op |-> op, arrays |-> heap, modified |-> FALSE]

\* _apply_v2_processor, a Tj string once _apply_pattern_replacement returned
v2_string_instruction(op, heap, text, modified_text) ==
    IF modified_text # text
    THEN [op |-> Instruction(<<StringOperand(modified_text)>>, op.operator),
          arrays |-> heap, modified |-> TRUE]
    ELSE [op |-> op, arrays |-> heap, modified |-> FALSE]

\* a variant of v2_instruction without the isinstance(array_obj, ArrayObject)
\* test: a TJ whose operand is a string is rewritten like a Tj
v2_instruction_any_text(op, heap) ==
    IF op.operator = "TJ" /\ op.operands # <<>> /\ op.operands[1].kind = "array"
    THEN v2_array_instruction(op, heap, process_tj_array(heap[op.operands[1].ref]))
    ELSE IF op.operator \in {"Tj", "TJ"} /\ op.operands # <<>>
    THEN IF ~pattern.none /\ finditer(pattern.alts, op.operands[1].s, 0) # <<>>
         THEN v2_string_instruction(op, heap, op.operands[1].s,
                                    apply_pattern_replacement(op.operands[1].s))
         ELSE [op |-> op, arrays |-> heap, modified |-> FALSE]
    ELSE [op |-> op, arrays |-> heap, modified |-> FALSE]

\* _apply_v2_processor, one instruction: what is appended to
\* modified_operations, the heap after it, and whether it set any_modified
v2_instruction(op, heap) ==
    IF op.operator = "TJ" /\ op.operands # <<>>
    THEN IF op.operands[1].kind = "array"
         THEN v2_array_instruction(op, heap, process_tj_array(heap[op.operands[1].ref]))
         ELSE [op |-> op, arrays |-> heap, modified |-> FALSE]
    ELSE IF op.operator = "Tj" /\ op.operands # <<>>
    THEN IF ~pattern.none /\ finditer(pattern.alts, op.operands[1].s, 0) # <<>>
         THEN v2_string_instruction(op, heap, op.operands[1].s,
                                    apply_pattern_replacement(op.operands[1].s))
         ELSE [op |-> op, arrays |-> heap, modified |-> FALSE]
    ELSE [op |-> op, arrays |-> heap, modified |-> FALSE]

\* a variant of v2_appended that appends rewritten instructions only
v2_appended_modified_only(acc, r) ==
    [operations |-> IF r.modified THEN Append(acc.operations, r.op) ELSE acc.operations,
     arrays |-> r.arrays,
     any_modified |-> acc.any_modified \/ r.modified]

\* _apply_v2_processor: the loop's state after one more instruction
v2_appended(acc, r) ==
    [operations |-> Append(acc.operations, r.op),
     arrays |-> r.arrays,
     any_modified |-> acc.any_modified \/ r.modified]

v2_step(acc, op) == v2_appended(acc, v2_instruction(op, acc.arrays))

\* _apply_v2_processor over operations[0 .. n-1]
RECURSIVE apply_v2_processor_upto(_, _, _)
apply_v2_processor_upto(operations, heap, n) ==
    IF n = 0 THEN [operations |-> <<>>, arrays |-> heap, any_modified |-> FALSE]
    ELSE v2_step(apply_v2_processor_upto(operations, heap, n - 1), operations[n])

\* _apply_v2_processor
apply_v2_processor(operations, heap) ==
    apply_v2_processor_upto(operations, heap, Len(operations))

\* the (i, array_obj) pairs of the instructions at idx
tj_operations_at(operations, heap, idx) ==
    [j \in 1..Len(idx) |->
        [index |-> idx[j] - 1,
         array |-> heap[operations[idx[j]].operands[1].ref]]]

\* _apply_cross_array_processing: tj_operations, as [index, array]
tj_operations_of(operations, heap) ==
    tj_operations_at(operations, heap,
        SelectSeq([i \in 1..Len(operations) |-> i],
                  LAMBDA i : IsTJArray(operations[i])))

\* _apply_cross_array_processing once tj_operations is built: <<>> where it
\* returns (operations, False) before the copy is made
matches_among(tj_operations) ==
    IF Len(tj_operations) < 2 THEN <<>>
    ELSE find_cross_array_matches(tj_operations)

\* _apply_cross_array_processing up to `if not cross_matches`
matches_to_apply(operations, heap) ==
    IF pattern.none THEN <<>>
    ELSE matches_among(tj_operations_of(operations, heap))

(***************************************************************************)
(* Inputs of the single-instruction path.                                  *)
(***************************************************************************)
MaxItems == 3

\* string operands: plain, upper case, and one ending in the fi ligature code
SegTexts == { <<"a">>, <<"b">>, <<"b", "c">>, <<"B">>, <<"b", "FF">> }

\* kerning jumps that infer a space (one of them exactly the threshold) and
\* one that does not
Kernings == {-200, -120, -50}

Items == {TextStringObject(t) : t \in SegTexts}
         \cup {NumberObject(n) : n \in Kernings} \cup {OtherObject}

RECURSIVE SeqsUpTo(_, _)
SeqsUpTo(S, n) ==
    IF n = 0 THEN {<<>>}
    ELSE LET shorter == SeqsUpTo(S, n - 1)
         IN shorter \cup {Append(q, x) : q \in {r \in shorter : Len(r) = n - 1}, x \in S}

V2Arrays == SeqsUpTo(Items, MaxItems)

Pair(key, value) == [k |-> key, v |-> value]

V2Mappings == {
    <<Pair(<<"a", "b">>, <<"Z">>), Pair(<<"b">>, <<"X">>), Pair(<<"b", "c">>, <<"Y", "y">>)>>,
    <<Pair(<<"b">>, <<"L">>), Pair(<<"B">>, <<"U">>)>>,
    <<Pair(<<"a", " ", "b">>, <<"Q">>)>>,
    <<Pair(<<"B", "c">>, <<"b", "c">>), Pair(<<"a">>, <<"a">>)>>,
    <<Pair(<<"b", "f", "i">>, <<"W">>)>>,
    <<Pair(<<" ", "b">>, <<"X">>), Pair(<<" ">>, <<"S">>)>>,
    <<Pair(<<"a", " ">>, <<"a">>)>>,
    <<>> }

(***************************************************************************)
(* SpecV2: one call of process_tj_array on any array and mapping.          *)
(***************************************************************************)
CallIdle ==
    /\ callee = "off"
    /\ call_args = <<>>
    /\ call_locals = <<>>
    /\ returned = [done |-> FALSE, value |-> <<>>]

ParIdle ==
    /\ threads = <<>>
    /\ running = 0
    /\ current_logger = 0
    /\ loggers = <<>>
    /\ par_heap = <<>>

AppIdle ==
    /\ app_pc = "off"
    /\ mode = ""
    /\ pdf_bytes = <<>>
    /\ user_mapping = <<>>
    /\ clean_mapping = <<>>
    /\ overlays = <<>>
    /\ stage_bytes = <<>>
    /\ trace = <<>>
    /\ outcome = [kind |-> "none", value |-> <<>>]

EngineIdle ==
    /\ lists = <<>>
    /\ arrays = <<>>
    /\ pc = "off"
    /\ cur = 0
    /\ v2_modified = FALSE
    /\ any_modified = FALSE
    /\ cross_matches = <<>>
    /\ applied_log = <<>>
    /\ result = [list |-> 0, modified |-> FALSE]
    /\ given = [operations |-> <<>>, arrays |-> <<>>]

V2Init ==
    /\ mapping \in V2Mappings
    /\ array_obj \in V2Arrays
    /\ v2pc = "call"
    /\ new_array = <<>>
    /\ modified = FALSE
    /\ tj_combined_text = <<>>
    /\ tj_replacements = <<>>
    /\ EngineIdle
    /\ AppIdle
    /\ ParIdle
    /\ CallIdle

\* the caller runs process_tj_array(array_obj) and receives (new_array, modified)
V2Process ==
    /\ v2pc = "call"
    /\ LET r == process_tj_array(array_obj)
       IN /\ new_array' = r.array
          /\ modified' = r.modified
          /\ tj_combined_text' = r.combined_text
          /\ tj_replacements' = r.replacements
    /\ v2pc' = "done"
    /\ UNCHANGED <<mapping, array_obj>>
    /\ UNCHANGED engvars
    /\ UNCHANGED appvars
    /\ UNCHANGED parvars
    /\ UNCHANGED callvars

V2Next == V2Process

SpecV2 == V2Init /\ [][V2Next]_vars

(***************************************************************************)
(* Inputs of the engine: instruction lists and mappings.                   *)
(***************************************************************************)
MaxOps == 3

\* an instruction as written in the content stream, arrays inline
TJ(items) == [operator |-> "TJ", operands |-> <<[kind |-> "array", items |-> items, s |-> <<>>]>>]
Tj(s) == [operator |-> "Tj", operands |-> <<[kind |-> "string", items |-> <<>>, s |-> s]>>]

StreamInstructions == {
    \* "= 0", the equals sign and the digit kerned apart
    TJ(<<TextStringObject(<<"=">>), NumberObject(-200), TextStringObject(<<"0">>)>>),
    \* "9:"
    TJ(<<TextStringObject(<<"9", ":">>)>>),
    \* ":" on its own
    TJ(<<TextStringObject(<<":">>)>>),
    \* a plain string
    Tj(<<"a", "b">>),
    \* another operator
    [operator |-> "Td", operands |-> <<[kind |-> "number", items |-> <<>>, s |-> <<>>],
                                       [kind |-> "number", items |-> <<>>, s |-> <<>>]>>],
    \* TJ whose operand is not an array
    [operator |-> "TJ", operands |-> <<[kind |-> "string", items |-> <<>>, s |-> <<"a", "b">>]>>],
    \* TJ with an empty operand list
    [operator |-> "TJ", operands |-> <<>>] }

Streams == SeqsUpTo(StreamInstructions, MaxOps)

EngineMappings == {
    <<Pair(<<"0", ".", "9", ":">>, <<"9", ".", "0", ":">>), Pair(<<"a", "b">>, <<"X">>)>>,
    <<Pair(<<"0", ".", "9", ":">>, <<"1", ".", "9", ":">>)>>,
    <<Pair(<<"0", " ", "9">>, <<"x", " ", "y">>)>>,
    <<Pair(<<"0", " ", "9">>, <<"5", " ", "6">>)>>,
    <<Pair(<<"9", ":">>, <<"8", ":">>)>>,
    \* a replacement that is itself a key
    <<Pair(<<"9", ":">>, <<"8", ":">>), Pair(<<"8", ":">>, <<"7", ":">>)>>,
    \* a key without digits that straddles two instructions
    <<Pair(<<":", " ", ":">>, <<";", " ", ";">>)>>,
    \* a decimal token mapped to itself
    <<Pair(<<"0", ".", "9", ":">>, <<"0", ".", "9", ":">>)>>,
    <<>> }

\* an operand as the parser hands it over
LoadOperand(operand, next_id) ==
    IF operand.kind = "array" THEN ArrayRef(next_id)
    ELSE IF operand.kind = "string" THEN StringOperand(operand.s)
    ELSE NumberOperand

LoadInstruction(acc, op) ==
    [operations |-> Append(acc.operations,
        Instruction([j \in 1..Len(op.operands) |->
                        LoadOperand(op.operands[j], Len(acc.arrays) + 1)],
                    op.operator)),
     arrays |-> IF op.operands # <<>> /\ op.operands[1].kind = "array"
                THEN Append(acc.arrays, op.operands[1].items)
                ELSE acc.arrays]

\* the parsed stream: every array operand is an ArrayObject of its own
RECURSIVE Load(_, _)
Load(stream, n) ==
    IF n = 0 THEN [operations |-> <<>>, arrays |-> <<>>]
    ELSE LoadInstruction(Load(stream, n - 1), stream[n])

\* an instruction list by value: every array reference replaced by its items
ValueOf(operations, heap) ==
    [i \in 1..Len(operations) |->
        [operator |-> operations[i].operator,
         operands |-> [j \in 1..Len(operations[i].operands) |->
                         IF operations[i].operands[j].kind = "array"
                         THEN [kind |-> "array",
                               items |-> heap[operations[i].operands[j].ref],
                               s |-> <<>>]
                         ELSE [kind |-> operations[i].operands[j].kind,
                               items |-> <<>>,
                               s |-> operations[i].operands[j].s]]]]

(***************************************************************************)
(* Spec: one call of process_content_operations.  List 1 is the caller's   *)
(* list; the engine allocates every other list and array.                  *)
(***************************************************************************)
V2Idle ==
    /\ v2pc = "off"
    /\ array_obj = <<>>
    /\ new_array = <<>>
    /\ modified = FALSE
    /\ tj_combined_text = <<>>
    /\ tj_replacements = <<>>

Init ==
    /\ mapping \in EngineMappings
    /\ \E stream \in Streams :
          \E loaded \in {Load(stream, Len(stream))} :
             /\ lists = <<loaded.operations>>
             /\ arrays = loaded.arrays
             /\ given = loaded
    /\ pc = "phase1"
    /\ cur = 1
    /\ v2_modified = FALSE
    /\ any_modified = FALSE
    /\ cross_matches = <<>>
    /\ applied_log = <<>>
    /\ result = [list |-> 0, modified |-> FALSE]
    /\ V2Idle
    /\ AppIdle
    /\ ParIdle
    /\ CallIdle

\* process_content_operations: `if not operations: return operations, False`
ReturnEmpty ==
    /\ pc = "phase1"
    /\ lists[cur] = <<>>
    /\ result' = [list |-> cur, modified |-> FALSE]
    /\ pc' = "done"
    /\ UNCHANGED <<mapping, lists, arrays, cur, v2_modified, any_modified,
                   cross_matches, applied_log, given>>
    /\ UNCHANGED v2vars
    /\ UNCHANGED appvars
    /\ UNCHANGED parvars
    /\ UNCHANGED callvars

\* phase 1: _apply_v2_processor builds modified_operations
ApplyV2Processor ==
    /\ pc = "phase1"
    /\ lists[cur] # <<>>
    /\ \E r \in {apply_v2_processor(lists[cur], arrays)} :
          /\ lists' = Append(lists, r.operations)
          /\ arrays' = r.arrays
          /\ v2_modified' = r.any_modified
    /\ cur' = Len(lists) + 1
    /\ pc' = "phase2"
    /\ UNCHANGED <<mapping, any_modified, cross_matches, applied_log, result, given>>
    /\ UNCHANGED v2vars
    /\ UNCHANGED appvars
    /\ UNCHANGED parvars
    /\ UNCHANGED callvars

\* phase 2 has nothing to apply: no pattern, fewer than two TJ arrays, or no
\* cross-array match; _apply_cross_array_processing returns (operations, False)
CrossSkip ==
    /\ pc = "phase2"
    /\ matches_to_apply(lists[cur], arrays) = <<>>
    /\ result' = [list |-> cur, modified |-> v2_modified]
    /\ pc' = "done"
    /\ UNCHANGED <<mapping, lists, arrays, cur, v2_modified, any_modified,
                   cross_matches, applied_log, given>>
    /\ UNCHANGED v2vars
    /\ UNCHANGED appvars
    /\ UNCHANGED parvars
    /\ UNCHANGED callvars

\* phase 2 finds matches and copies the list: modified_operations = list(operations)
CrossFind ==
    /\ pc = "phase2"
    /\ \E found \in {matches_to_apply(lists[cur], arrays)} :
          /\ found # <<>>
          /\ cross_matches' = found
    /\ lists' = Append(lists, lists[cur])
    /\ cur' = Len(lists) + 1
    /\ any_modified' = FALSE
    /\ pc' = "apply"
    /\ UNCHANGED <<mapping, arrays, v2_modified, applied_log, result, given>>
    /\ UNCHANGED v2vars
    /\ UNCHANGED appvars
    /\ UNCHANGED parvars
    /\ UNCHANGED callvars

\* one turn of `for match in reversed(cross_matches)`
ApplyCrossMatch ==
    /\ pc = "apply"
    /\ cross_matches # <<>>
    /\ \E r \in {apply_cross_array_replacement(lists[cur], arrays,
                                                cross_matches[Len(cross_matches)])} :
          /\ lists' = [lists EXCEPT ![cur] = r.operations]
          /\ arrays' = r.arrays
          /\ any_modified' = (any_modified \/ r.success)
          /\ applied_log' = Append(applied_log,
                [match |-> cross_matches[Len(cross_matches)], applied |-> r.success,
                 before |-> ValueOf(lists[cur], arrays),
                 after |-> ValueOf(r.operations, r.arrays)])
    /\ cross_matches' = SubSeq(cross_matches, 1, Len(cross_matches) - 1)
    /\ UNCHANGED <<mapping, pc, cur, v2_modified, result, given>>
    /\ UNCHANGED v2vars
    /\ UNCHANGED appvars
    /\ UNCHANGED parvars
    /\ UNCHANGED callvars

\* every match applied: return operations_after_cross, v2_modified or cross_modified
Return ==
    /\ pc = "apply"
    /\ cross_matches = <<>>
    /\ result' = [list |-> cur, modified |-> (v2_modified \/ any_modified)]
    /\ pc' = "done"
    /\ UNCHANGED <<mapping, lists, arrays, cur, v2_modified, any_modified,
                   cross_matches, applied_log, given>>
    /\ UNCHANGED v2vars
    /\ UNCHANGED appvars
    /\ UNCHANGED parvars
    /\ UNCHANGED callvars

Next ==
    \/ ReturnEmpty
    \/ ApplyV2Processor
    \/ CrossSkip
    \/ CrossFind
    \/ ApplyCrossMatch
    \/ Return

Spec == Init /\ [][Next]_vars

(***************************************************************************)
(* Properties of the single-instruction path (SpecV2).                     *)
(***************************************************************************)
\* the text a fresh flatten of an array gives
ReFlatten(arr) == extract_segments(arr, Len(arr)).combined_text

\* owners of the input array's flattened text
InputOwners == extract_segments(array_obj, Len(array_obj)).char_owner_indices

\* the match r covers a character that is an inferred space
SpansInferredSpace(r) == \E p \in r.start..(r.end - 1) : InputOwners[p + 1] = None

\* the flattened text with every applied match replaced by its replacement
ReplacedText == replaced_text_from(tj_combined_text, tj_replacements, 1, 0)

\* every numeric item is unchanged and at its original index
NumbersKept ==
    /\ Len(new_array) = Len(array_obj)
    /\ \A i \in 1..Len(array_obj) :
          array_obj[i].kind = "number" => new_array[i] = array_obj[i]

\* C1: when no match contains an inferred space, re-flattening the returned
\* array yields the original flattened text with every match replaced by its
\* replacement, and every numeric item is unchanged at its original index.
C1_ReflattenIsReplacedText ==
    (v2pc = "done" /\ \A j \in 1..Len(tj_replacements) :
                          ~SpansInferredSpace(tj_replacements[j]))
    => (ReFlatten(new_array) = ReplacedText /\ NumbersKept)

\* C2: when a match spans an inferred space, the returned array is modified
\* and its re-flattened text is exactly the replaced text, with no leftover
\* inferred space.
C2_SpaceInferenceRoundTrip ==
    (v2pc = "done" /\ \E j \in 1..Len(tj_replacements) :
                          SpansInferredSpace(tj_replacements[j]))
    => (modified /\ ReFlatten(new_array) = ReplacedText)

Keys == {mapping[i].k : i \in 1..Len(mapping)}

IsProperPrefix(k1, k2) == Len(k1) < Len(k2) /\ SubSeq(k2, 1, Len(k1)) = k1

\* the pattern's hits on the flattened text, before resolution
Hits == IF pattern.none THEN <<>> ELSE finditer(pattern.alts, tj_combined_text, 0)

\* pos lies inside a hit that started further left
InsideEarlierHit(pos) ==
    \E i \in 1..Len(Hits) : Hits[i].start < pos /\ pos < Hits[i].end

\* a match is reported for exactly the range [pos, pos + len)
ReportedAt(pos, len) ==
    \E j \in 1..Len(tj_replacements) :
        tj_replacements[j].start = pos /\ tj_replacements[j].end = pos + len

\* positions of the flattened text where the longer key of a prefix pair matches
LongerKeyMatches(k1, k2, pos) ==
    /\ k1 \in Keys /\ k2 \in Keys /\ IsProperPrefix(k1, k2)
    /\ pos \in 0..(Len(tj_combined_text) - 1)
    /\ LiteralMatchesAt(tj_combined_text, pos, k2)

\* C3 as stated: at any text position where the longer key of a prefix pair
\* matches, one match is reported for the longer key and none for the
\* shorter key.
C3_LongestMatchEverywhere ==
    v2pc = "done" =>
        \A k1 \in Keys, k2 \in Keys, pos \in 0..Len(tj_combined_text) :
            LongerKeyMatches(k1, k2, pos)
            => (ReportedAt(pos, Len(k2)) /\ ~ReportedAt(pos, Len(k1)))

\* C3 as amended: at any text position where the longer key of a prefix pair
\* matches and that does not lie inside an earlier hit, the pattern's hit
\* starts there and is at least as long as the longer key, no match is
\* reported for the shorter key, and the hit is reported as a match unless
\* its resolution is empty or equals the hit text.
C3_LongestMatchAtScanPosition ==
    v2pc = "done" =>
        \A k1 \in Keys, k2 \in Keys, pos \in 0..Len(tj_combined_text) :
            (LongerKeyMatches(k1, k2, pos) /\ ~InsideEarlierHit(pos))
            => /\ ~ReportedAt(pos, Len(k1))
               /\ \E i \in 1..Len(Hits) :
                     /\ Hits[i].start = pos
                     /\ Hits[i].end >= pos + Len(k2)
                     /\ LET hit == Slice(tj_combined_text, pos, Hits[i].end)
                            r == resolve_replacement(hit)
                        IN ReportedAt(pos, Len(hit))
                           <=> (r.found /\ r.v # <<>> /\ r.v # hit)

\* C3 witness: the longer key of a prefix pair matched and its replacement
\* was written
C3_Witness ==
    /\ v2pc = "done"
    /\ modified
    /\ \E k1 \in Keys, k2 \in Keys, pos \in 0..Len(tj_combined_text) :
          /\ LongerKeyMatches(k1, k2, pos)
          /\ \E j \in 1..Len(tj_replacements) :
                /\ tj_replacements[j].start = pos
                /\ tj_replacements[j].original = k2
                /\ tj_replacements[j].replacement = DictAt(mapping, k2)

\* the resolution the claim describes: the exact entry for the hit as
\* written, else the entry of the last key whose casefold is casefold(hit)
ExactThenFolded(hit) ==
    LET exact == {i \in 1..Len(mapping) : mapping[i].k = hit}
        folded == {i \in 1..Len(mapping) : casefold(mapping[i].k) = casefold(hit)}
    IN IF exact # {} THEN [found |-> TRUE, v |-> mapping[CHOOSE i \in exact : TRUE].v]
       ELSE IF folded # {}
            THEN [found |-> TRUE,
                  v |-> mapping[CHOOSE i \in folded : \A h \in folded : h <= i].v]
       ELSE [found |-> FALSE, v |-> <<>>]

\* the match that hit h must produce, if any
ExpectedMatch(h) ==
    LET hit == Slice(tj_combined_text, h.start, h.end)
    IN [start |-> h.start, end |-> h.end, original |-> hit,
        replacement |-> ExactThenFolded(hit).v]

Produces(h) ==
    LET hit == Slice(tj_combined_text, h.start, h.end)
        r == ExactThenFolded(hit)
    IN r.found /\ r.v # <<>> /\ r.v # hit

\* C4: every hit is resolved exact table first, then folded table with
\* casefold(hit); the replacement is the mapping's value as declared; a hit
\* with no resolution or whose resolution equals the hit produces no match.
C4_ExactThenFoldedResolution ==
    v2pc = "done" =>
        /\ \A i \in 1..Len(Hits) :
              Produces(Hits[i])
              <=> \E j \in 1..Len(tj_replacements) :
                     tj_replacements[j] = ExpectedMatch(Hits[i])
        /\ \A j \in 1..Len(tj_replacements) :
              \E i \in 1..Len(Hits) :
                 Produces(Hits[i]) /\ tj_replacements[j] = ExpectedMatch(Hits[i])

\* C4 witness: a hit that is no key as written was resolved through the
\* folded table and emitted with the mapping's casing
C4_Witness ==
    /\ v2pc = "done"
    /\ \E j \in 1..Len(tj_replacements) :
          LET r == tj_replacements[j]
          IN /\ ~DictHas(mapping, r.original)
             /\ r.replacement = DictAt(mapping_cf, casefold(r.original))
             /\ \E i \in 1..Len(new_array) :
                   /\ new_array[i].kind = "text"
                   /\ Contains(new_array[i].s, r.replacement)
                   /\ new_array[i] # array_obj[i]

(***************************************************************************)
(* Properties of the engine (Spec).                                        *)
(***************************************************************************)
\* the caller's instruction list as it was handed over, by value
GivenValue == ValueOf(given.operations, given.arrays)

\* the returned instruction list, by value
ReturnedValue == ValueOf(lists[result.list], arrays)

\* the flattened text of an instruction of the input
FlattenedText(op) ==
    IF op.operands = <<>> THEN <<>>
    ELSE IF op.operands[1].kind = "array"
    THEN extract_array_text(given.arrays[op.operands[1].ref])
    ELSE op.operands[1].s

\* some key occurs in text, ignoring case
KeyOccursIn(text) ==
    \E k \in Keys : \E pos \in 0..Len(text) : LiteralMatchesAt(text, pos, k)

NoKeyInAnyInstruction ==
    \A i \in 1..Len(given.operations) : ~KeyOccursIn(FlattenedText(given.operations[i]))

\* the positioned arrays of the input, and the texts of their windows
GivenTJ == tj_operations_of(given.operations, given.arrays)

WindowText(i) ==
    LET window == window_of(GivenTJ, i)
    IN build_window_text([w \in 1..Len(window) |-> window[w].array])

\* one of the decimal-recovery expressions matches somewhere in text
DecimalHits(text) ==
    {decimal_match_at(text, s, form) : s \in 0..(Len(text) - 1), form \in 1..3}

\* a decimal-recovery hit whose synthesized token is a key
DecimalTokenResolves(text) ==
    \E m \in DecimalHits(text) :
        m.ok /\ \E k \in Keys : casefold(k) = casefold(reconstructed(m))

NoCrossInstructionHit ==
    \A i \in 0..(Len(GivenTJ) - 2) :
        ~KeyOccursIn(WindowText(i)) /\ ~DecimalTokenResolves(WindowText(i))

\* C5 as stated: when the keys occur in the flattened text of no
\* instruction, the engine returns modified = false and a list with the same
\* items, in the same order, with the same values.
C5_UnchangedWhenNoKeyInAnyInstruction ==
    (pc = "done" /\ NoKeyInAnyInstruction)
    => (~result.modified /\ ReturnedValue = GivenValue)

\* C5 as amended: when the keys occur in the flattened text of no
\* instruction and of no window of consecutive positioned arrays, and no
\* decimal-recovery hit synthesizes a key, the engine returns modified =
\* false and a list with the same items, in the same order, with the same
\* values.
C5_UnchangedWhenNoHitAnywhere ==
    (pc = "done" /\ NoKeyInAnyInstruction /\ NoCrossInstructionHit)
    => (~result.modified /\ ReturnedValue = GivenValue)

\* C5 witness: a mapping with keys, a window of positioned arrays in which
\* a decimal-recovery expression hits but synthesizes no key, and the engine
\* returned
C5_Witness ==
    /\ pc = "done"
    /\ mapping # <<>>
    /\ NoKeyInAnyInstruction /\ NoCrossInstructionHit
    /\ \E i \in 0..(Len(GivenTJ) - 2) : \E m \in DecimalHits(WindowText(i)) : m.ok
    /\ \E i \in 1..Len(given.operations) : given.operations[i].operator = "Tj"
    /\ ~result.modified

\* d1.d2: as a key with a replacement r1.r2:
DecimalKeys ==
    {k \in Keys : /\ Len(k) = 4 /\ k[1] \in Digits /\ k[2] = "."
                  /\ k[3] \in Digits /\ k[4] = ":"
                  /\ Len(DictAt(mapping, k)) = 4
                  /\ DictAt(mapping, k)[1] \in Digits /\ DictAt(mapping, k)[2] = "."
                  /\ DictAt(mapping, k)[3] \in Digits /\ DictAt(mapping, k)[4] = ":"}

\* consecutive positioned arrays j, j+1 of the input hold d1 | d2: with the
\* decimal point lost
HoldsSplitToken(j, k) ==
    LET first == extract_array_text(GivenTJ[j].array)
        second == extract_array_text(GivenTJ[j + 1].array)
    IN /\ first # <<>> /\ first[Len(first)] = k[1]
       /\ Len(second) >= 2 /\ second[1] = k[3] /\ second[2] = ":"

\* the log entries of the rewrites of key k aimed at positioned arrays j, j+1
RewritesOf(j, k) ==
    {e \in 1..Len(applied_log) :
        /\ applied_log[e].match.original = k
        /\ Len(applied_log[e].match.window_operations) >= 2
        /\ applied_log[e].match.window_operations[1] = GivenTJ[j].index
        /\ applied_log[e].match.window_operations[2] = GivenTJ[j + 1].index}

\* the array the returned list holds at instruction index
ReturnedArray(index) == arrays[lists[result.list][index + 1].operands[1].ref]

\* r1 in place of d1 in every string item that holds d1
FirstHalfRewritten(arr, d1, r1) ==
    [i \in 1..Len(arr) |->
        IF arr[i].kind = "text" /\ Contains(arr[i].s, <<d1>>)
        THEN TextStringObject(Replace(arr[i].s, <<d1>>, <<r1>>))
        ELSE arr[i]]

\* ".r2:" in place of "d2:", or ".r2" in place of bare d2 when the item has
\* no colon form and no point
SecondHalfRewritten(arr, d2, r2) ==
    [i \in 1..Len(arr) |->
        IF arr[i].kind = "text" /\ Contains(arr[i].s, <<d2, ":">>)
        THEN TextStringObject(Replace(arr[i].s, <<d2, ":">>, <<".", r2, ":">>))
        ELSE IF arr[i].kind = "text" /\ Contains(arr[i].s, <<d2>>)
                /\ ~Contains(arr[i].s, <<".">>)
        THEN TextStringObject(Replace(arr[i].s, <<d2>>, <<".", r2>>))
        ELSE arr[i]]

\* C6 as stated: when two consecutive positioned arrays hold a token d1.d2:
\* whose point was lost and the mapping has d1.d2: -> r1.r2:, the match
\* resolves via the mapping and, whenever the rewrite reports applied, the
\* first array holds r1 in place of d1 and the second holds .r2: in place of
\* d2:, so that the two arrays re-flattened and concatenated contain the
\* replacement's digits.
C6_DecimalRecoveryRewritesBothHalves ==
    pc = "done" =>
        \A k \in DecimalKeys : \A j \in 1..(Len(GivenTJ) - 1) :
            HoldsSplitToken(j, k) =>
                /\ \E e \in RewritesOf(j, k) :
                      applied_log[e].match.replacement = DictAt(mapping, k)
                /\ (\E e \in RewritesOf(j, k) : applied_log[e].applied) =>
                      LET r == DictAt(mapping, k)
                          first == ReturnedArray(GivenTJ[j].index)
                          second == ReturnedArray(GivenTJ[j + 1].index)
                      IN /\ first = FirstHalfRewritten(GivenTJ[j].array, k[1], r[1])
                         /\ second = SecondHalfRewritten(GivenTJ[j + 1].array, k[3], r[3])
                         /\ Contains(extract_array_text(first)
                                     \o extract_array_text(second), <<r[1]>>)
                         /\ Contains(extract_array_text(first)
                                     \o extract_array_text(second), <<".", r[3], ":">>)

\* a TJ instruction whose operand list is empty or whose operand is no array
Malformed(op) ==
    op.operator = "TJ" /\ (op.operands = <<>> \/ op.operands[1].kind # "array")

\* instruction index (0-based) is a member of the window of match
InWindow(match, index) ==
    \E w \in 1..Len(match.window_operations) : match.window_operations[w] = index

\* C7: a TJ instruction whose operand is not an array, or whose operand list
\* is empty, is the identical record in the list built by the
\* single-instruction pass and in the list built by the cross-instruction
\* pass, sets no modified flag, and is a member of no window.
C7_MalformedOperandPassesThrough ==
    /\ \A i \in 1..Len(given.operations) :
          Malformed(given.operations[i]) =>
             /\ \A l \in 1..Len(lists) :
                   Len(lists[l]) = Len(given.operations)
                   /\ lists[l][i] = given.operations[i]
             /\ v2_instruction(given.operations[i], arrays)
                   = [op |-> given.operations[i], arrays |-> arrays, modified |-> FALSE]
             /\ \A m \in 1..Len(cross_matches) : ~InWindow(cross_matches[m], i - 1)
             /\ \A e \in 1..Len(applied_log) : ~InWindow(applied_log[e].match, i - 1)
    /\ (pc = "done" /\ \A i \in 1..Len(given.operations) : Malformed(given.operations[i]))
          => (~result.modified /\ lists[result.list] = given.operations)

\* C7 witness: a malformed TJ instruction whose string operand holds a key
\* stands between two positioned arrays that a cross-instruction rewrite
\* changed
C7_Witness ==
    /\ pc = "done"
    /\ \E i \in 1..Len(given.operations) :
          /\ Malformed(given.operations[i])
          /\ given.operations[i].operands # <<>>
          /\ \E e \in 1..Len(applied_log) :
                /\ applied_log[e].applied
                /\ applied_log[e].match.window_operations[1] < i - 1
                /\ applied_log[e].match.window_operations[2] > i - 1
                /\ KeyOccursIn(given.operations[i].operands[1].s)

\* C8: every list the engine builds has the input's length and the input's
\* operator at every index, and every instruction whose operator is neither
\* Tj nor TJ is the identical record at the same index.
C8_ShapePreserved ==
    /\ \A l \in 1..Len(lists) :
          /\ Len(lists[l]) = Len(given.operations)
          /\ \A i \in 1..Len(given.operations) :
                /\ lists[l][i].operator = given.operations[i].operator
                /\ given.operations[i].operator \notin {"Tj", "TJ"}
                      => lists[l][i] = given.operations[i]
    /\ pc = "done" => result.list \in 1..Len(lists)

\* C8 witness: the engine rewrote an instruction on each side of an
\* instruction with another operator
C8_Witness ==
    /\ pc = "done"
    /\ result.modified
    /\ \E i \in 2..(Len(given.operations) - 1) :
          /\ given.operations[i].operator = "Td"
          /\ ReturnedValue[i - 1] # GivenValue[i - 1]
          /\ ReturnedValue[i + 1] # GivenValue[i + 1]

\* C9: the caller's list and every array it refers to hold what they held
\* before the call, and every instruction of the returned list that is not
\* the input's record refers to an array that the engine built.
C9_InputNeverMutated ==
    /\ lists[1] = given.operations
    /\ \A id \in 1..Len(given.arrays) :
          Len(arrays) >= Len(given.arrays) /\ arrays[id] = given.arrays[id]
    /\ pc = "done" =>
          \A i \in 1..Len(lists[result.list]) :
              (lists[result.list][i] # given.operations[i]
               /\ IsTJArray(lists[result.list][i]))
              => lists[result.list][i].operands[1].ref
                    \in (Len(given.arrays) + 1)..Len(arrays)

\* C9 witness: both passes rewrote a positioned array of the input
C9_Witness ==
    /\ pc = "done"
    /\ v2_modified /\ any_modified
    /\ \E i \in 1..Len(given.operations) :
          /\ IsTJArray(given.operations[i])
          /\ ReturnedValue[i] # GivenValue[i]
    /\ \E e \in 1..Len(applied_log) :
          applied_log[e].applied /\ applied_log[e].after # applied_log[e].before

\* C10 as stated: the cross-instruction rewriter returns applied = true only
\* if a targeted instruction changed and otherwise leaves the list unchanged,
\* and the engine's flag is true if and only if some instruction of the
\* returned list differs in value from the input instruction at its index.
C10_FlagsAreAccurate ==
    /\ \A e \in 1..Len(applied_log) :
          /\ applied_log[e].applied => applied_log[e].after # applied_log[e].before
          /\ ~applied_log[e].applied => applied_log[e].after = applied_log[e].before
    /\ pc = "done" => (result.modified <=> ReturnedValue # GivenValue)

\* the list the single-instruction pass built, by value (the input itself
\* when the engine returned before that pass)
AfterV2Value == ValueOf(lists[IF Len(lists) >= 2 THEN 2 ELSE 1], arrays)

\* u can be read in t, in order
RECURSIVE IsSubsequence(_, _)
IsSubsequence(u, t) ==
    IF u = <<>> THEN TRUE
    ELSE IF t = <<>> THEN FALSE
    ELSE IF u[1] = t[1] THEN IsSubsequence(Tail(u), Tail(t))
    ELSE IsSubsequence(u, Tail(t))

\* the characters of text, which starts at offset, that lie in no span
Outside(text, offset, spans) ==
    LET kept == SelectSeq([p \in 1..Len(text) |-> p],
                          LAMBDA p : \A sp \in spans :
                                        offset + p - 1 < sp.start
                                        \/ offset + p - 1 >= sp.end)
    IN [j \in 1..Len(kept) |-> text[kept[j]]]

\* where item i of an array starts in the array's flattened text
ItemOffset(items, i) == Len(extract_array_text(SubSeq(items, 1, i - 1)))

\* the spans of the matches the single-instruction pass applies to text
AppliedSpans(text) ==
    LET repls == apply_replacements(text).replacements
    IN {[start |-> repls[j].start, end |-> repls[j].end] : j \in 1..Len(repls)}

\* the spans of the matches the single-instruction pass applied to an
\* instruction, in the coordinates of its flattened text
V2Spans(op) ==
    IF op.operands = <<>> THEN {}
    ELSE IF op.operator = "TJ" /\ op.operands[1].kind = "array"
    THEN AppliedSpans(extract_array_text(op.operands[1].items))
    ELSE IF op.operator = "Tj" THEN AppliedSpans(op.operands[1].s)
    ELSE {}

\* where member w of a match's window starts in the window text
WindowOffset(match, w) ==
    LET before == build_window_text(
                     [v \in 1..(w - 1) |->
                         AfterV2Value[match.window_operations[v] + 1].operands[1].items])
    IN IF before = <<>> THEN 0 ELSE Len(before) + 1

\* the spans of the applied cross-instruction matches whose window holds
\* instruction i, in the coordinates of that instruction's flattened text
CrossSpans(i) ==
    {[start |-> applied_log[e[1]].match.match_start
                   - WindowOffset(applied_log[e[1]].match, e[2]),
      end |-> applied_log[e[1]].match.match_end
                   - WindowOffset(applied_log[e[1]].match, e[2])] :
        e \in {x \in (1..Len(applied_log)) \X (1..3) :
                  /\ applied_log[x[1]].applied
                  /\ x[2] <= Len(applied_log[x[1]].match.window_operations)
                  /\ applied_log[x[1]].match.window_operations[x[2]] = i - 1}}

\* every character of the instruction before that lies in no span can be
\* read, in order, in the same item of the instruction after
KeepsOutside(before, after, spans) ==
    /\ Len(after.operands) = Len(before.operands)
    /\ \A j \in 1..Len(before.operands) :
          IF before.operands[j].kind = "array"
          THEN /\ after.operands[j].kind = "array"
               /\ Len(after.operands[j].items) = Len(before.operands[j].items)
               /\ \A i \in 1..Len(before.operands[j].items) :
                     before.operands[j].items[i].kind = "text" =>
                        IsSubsequence(
                           Outside(clean_special_chars(before.operands[j].items[i].s),
                                   ItemOffset(before.operands[j].items, i), spans),
                           clean_special_chars(after.operands[j].items[i].s))
          ELSE IsSubsequence(Outside(before.operands[j].s, 0, spans),
                             after.operands[j].s)

\* C11 as stated: in the engine's output every character of every string
\* item that lies outside the span of every applied match, of the
\* single-instruction pass and of the cross-instruction pass, is still
\* present and unchanged.
C11_UnmatchedCharactersKept ==
    pc = "done" =>
        \A i \in 1..Len(GivenValue) :
            /\ KeepsOutside(GivenValue[i], AfterV2Value[i], V2Spans(GivenValue[i]))
            /\ KeepsOutside(AfterV2Value[i], ReturnedValue[i], CrossSpans(i))

\* C12: with an empty mapping there is no pattern; the single-instruction
\* pass rewrites no positioned array and no plain string, the
\* cross-instruction pass finds no match (no window hit, no decimal
\* recovery) and builds nothing, and the engine returns the caller's list
\* unchanged with modified = false.
C12_EmptyMappingShortCircuits ==
    /\ pattern.none <=> mapping = <<>>
    /\ mapping = <<>> =>
          /\ \A i \in 1..Len(given.operations) :
                v2_instruction(given.operations[i], arrays)
                   = [op |-> given.operations[i], arrays |-> arrays, modified |-> FALSE]
          /\ \A l \in 1..Len(lists) : lists[l] = given.operations
          /\ arrays = given.arrays
          /\ matches_to_apply(lists[cur], arrays) = <<>>
          /\ cross_matches = <<>> /\ applied_log = <<>>
          /\ ~v2_modified /\ ~any_modified
          /\ pc \notin {"apply"}
          /\ pc = "done" => (~result.modified /\ ReturnedValue = GivenValue)

\* C12 witness: the engine returned for an empty mapping and a list with a
\* plain string that other mappings rewrite and two positioned arrays whose
\* window text a decimal-recovery expression hits
C12_Witness ==
    /\ pc = "done"
    /\ mapping = <<>>
    /\ \E i \in 1..Len(given.operations) : given.operations[i].operator = "Tj"
    /\ Len(GivenTJ) >= 2
    /\ \E i \in 0..(Len(GivenTJ) - 2) : \E m \in DecimalHits(WindowText(i)) : m.ok

(***************************************************************************)
(* Claims about the single-instruction rewriter's flattened view, matches, *)
(* owners and frame                                                        *)
(***************************************************************************)
\* the flattened view of the array of the call
Flat == extract_segments(array_obj, Len(array_obj))

\* whether a numeric item stands for a space
InfersSpace(item) == item.kind = "number" /\ item.n <= -120

\* number of characters the items 1..i put into the flattened text
RECURSIVE FlatLen(_, _)
FlatLen(arr, i) ==
    IF i = 0 THEN 0
    ELSE FlatLen(arr, i - 1)
         + (IF arr[i].kind = "text" THEN Len(clean_special_chars(arr[i].s))
            ELSE IF InfersSpace(arr[i]) THEN 1 ELSE 0)

\* the indices (from 1) of the string items of arr, in order
TextIndices(arr) ==
    SelectSeq([i \in 1..Len(arr) |-> i], LAMBDA i : arr[i].kind = "text")

\* C17: the owner sequence is as long as the flattened text; the k-th string
\* item is segment k with range [start, end), text[start:end] its cleaned
\* text and every position of the range owned by it; a position has no
\* owner iff it is the space inferred from a numeric item <= -120; a numeric
\* item above -120 or an item of another kind leaves the view as it was.
C17_FlattenedViewInvariant ==
    v2pc = "done" =>
        LET text == Flat.combined_text
            owners == Flat.char_owner_indices
            segs == Flat.text_segments
            idx == TextIndices(array_obj)
        IN /\ tj_combined_text = text
           /\ Len(owners) = Len(text)
           /\ Len(text) = FlatLen(array_obj, Len(array_obj))
           /\ Len(segs) = Len(idx)
           /\ \A k \in 1..Len(segs) :
                 /\ segs[k].array_index = idx[k] - 1
                 /\ segs[k].raw = array_obj[idx[k]].s
                 /\ segs[k].clean = clean_special_chars(segs[k].raw)
                 /\ segs[k].start = FlatLen(array_obj, idx[k] - 1)
                 /\ segs[k].end = segs[k].start + Len(segs[k].clean)
                 /\ Slice(text, segs[k].start, segs[k].end) = segs[k].clean
                 /\ \A p \in segs[k].start..(segs[k].end - 1) : owners[p + 1] = k - 1
           /\ \A p \in 0..(Len(text) - 1) :
                 /\ owners[p + 1] = None
                       <=> \E i \in 1..Len(array_obj) :
                              /\ InfersSpace(array_obj[i])
                              /\ FlatLen(array_obj, i - 1) = p
                 /\ owners[p + 1] = None => text[p + 1] = " "
           /\ \A i \in 1..Len(array_obj) :
                 (array_obj[i].kind # "text" /\ ~InfersSpace(array_obj[i]))
                    => extract_segments(array_obj, i) = extract_segments(array_obj, i - 1)

\* C17 witness: a processed array with a numeric item above the threshold,
\* then one exactly at it, then a string whose cleaned text differs from
\* its raw text
C17_Witness ==
    /\ v2pc = "done"
    /\ Len(array_obj) = 3
    /\ array_obj[1] = NumberObject(-50)
    /\ array_obj[2] = NumberObject(-120)
    /\ array_obj[3].kind = "text"
    /\ clean_special_chars(array_obj[3].s) # array_obj[3].s
    /\ Flat.char_owner_indices = <<None, 0, 0, 0>>

\* the hits of the pattern scan over text, before resolution
ScanHits(text) == IF pattern.none THEN <<>> ELSE finditer(pattern.alts, text, 0)

\* C18: the matches returned for the flattened view are ordered by start,
\* no match starts before the previous one ends, each match's original is
\* the view's text in [start, end), and each replacement is non-empty and
\* differs from its original.
C18_MatchListInvariants ==
    v2pc = "done" =>
        /\ tj_replacements = apply_replacements(tj_combined_text).replacements
        /\ \A k \in 1..Len(tj_replacements) :
              LET m == tj_replacements[k]
              IN /\ 0 <= m.start /\ m.start < m.end /\ m.end <= Len(tj_combined_text)
                 /\ m.original = Slice(tj_combined_text, m.start, m.end)
                 /\ m.replacement # <<>>
                 /\ m.replacement # m.original
                 /\ k > 1 => tj_replacements[k - 1].end <= m.start
                 /\ k > 1 => tj_replacements[k - 1].start < m.start

\* C18 witness: a processed view with two matches, the second starting
\* where the first ends
C18_Witness ==
    /\ v2pc = "done"
    /\ Len(tj_replacements) = 2
    /\ tj_replacements[2].start = tj_replacements[1].end
    /\ Len(ScanHits(tj_combined_text)) = 2

\* a processed view in which the scan hit a key that resolves to itself
C18_DroppedHitWitness ==
    /\ v2pc = "done"
    /\ Len(ScanHits(tj_combined_text)) > Len(tj_replacements)

\* positions with an owner before start, and from end on
OwnedBefore(owners, start) == {p \in 0..(start - 1) : owners[p + 1] # None}
OwnedFrom(owners, end) == {p \in end..(Len(owners) - 1) : owners[p + 1] # None}

\* which rule of the precedence applies to a match [start, end)
OwnerCase(owners, start, end) ==
    IF owners[start + 1] # None THEN "a"
    ELSE IF OwnedBefore(owners, start) # {} THEN "b"
    ELSE IF OwnedFrom(owners, end) # {} THEN "c"
    ELSE "d"

\* the owner the precedence gives to a match [start, end)
OwnerByPrecedence(owners, start, end) ==
    LET rule == OwnerCase(owners, start, end)
    IN IF rule = "a" THEN owners[start + 1]
       ELSE IF rule = "b"
       THEN owners[(CHOOSE p \in OwnedBefore(owners, start) :
                       \A q \in OwnedBefore(owners, start) : q <= p) + 1]
       ELSE IF rule = "c"
       THEN owners[(CHOOSE p \in OwnedFrom(owners, end) :
                       \A q \in OwnedFrom(owners, end) : p <= q) + 1]
       ELSE None

\* what position p of the view gives to segment j on re-aggregation: the
\* whole replacement at the start of a match owned by j, nothing at the
\* other positions of a match, the character itself outside the matches
PieceFor(j, p, text, owners, repls) ==
    IF \E k \in 1..Len(repls) : repls[k].start <= p /\ p < repls[k].end
    THEN LET k == CHOOSE h \in 1..Len(repls) : repls[h].start <= p /\ p < repls[h].end
         IN IF p = repls[k].start
               /\ OwnerByPrecedence(owners, repls[k].start, repls[k].end) = j
            THEN repls[k].replacement
            ELSE <<>>
    ELSE IF owners[p + 1] = j THEN <<text[p + 1]>> ELSE <<>>

\* the text of segment j after re-aggregation, by the precedence
TextByPrecedence(j, text, owners, repls) ==
    Join([q \in 1..Len(text) |-> PieceFor(j, q - 1, text, owners, repls)])

\* the rules of the precedence that the matches of the call fall under
CasesOfCall ==
    {OwnerCase(Flat.char_owner_indices, tj_replacements[k].start, tj_replacements[k].end) :
        k \in 1..Len(tj_replacements)}

\* C19: every match gets the owner the precedence (a) to (d) gives, all
\* its replacement characters go to that owner's segment, and with no
\* owner they go to no segment: each string item of the returned array
\* holds the text the precedence gives its segment (the item itself where
\* that text is the segment's cleaned text).
C19_OwnerResolutionPrecedence ==
    v2pc = "done" =>
        LET text == Flat.combined_text
            owners == Flat.char_owner_indices
            segs == Flat.text_segments
        IN /\ \A k \in 1..Len(tj_replacements) :
                 resolve_owner_for_replacement(owners, tj_replacements[k].start,
                                               tj_replacements[k].end)
                    = OwnerByPrecedence(owners, tj_replacements[k].start,
                                        tj_replacements[k].end)
           /\ Len(new_array) = Len(array_obj)
           /\ tj_replacements # <<>> =>
                 \A j \in 1..Len(segs) :
                    LET now == TextByPrecedence(j - 1, text, owners, tj_replacements)
                        item == new_array[segs[j].array_index + 1]
                    IN IF now = segs[j].clean
                       THEN item = array_obj[segs[j].array_index + 1]
                       ELSE item = TextStringObject(restore_special_chars(now, segs[j].raw))

\* C19 witness: a match that starts on an inferred space took the owner
\* found backward, although a segment follows the match
C19_Witness ==
    /\ v2pc = "done"
    /\ \E k \in 1..Len(tj_replacements) :
          /\ OwnerCase(Flat.char_owner_indices, tj_replacements[k].start,
                       tj_replacements[k].end) = "b"
          /\ OwnedFrom(Flat.char_owner_indices, tj_replacements[k].end) # {}
    /\ modified

\* a match whose owner was found forward, past the matched range
C19_ForwardWitness == v2pc = "done" /\ "c" \in CasesOfCall /\ modified

\* a match with no owner, its replacement dropped, next to a string item
C19_NoOwnerWitness ==
    v2pc = "done" /\ "d" \in CasesOfCall /\ Flat.text_segments # <<>>

\* a match whose start has an owner
C19_StartOwnerWitness == v2pc = "done" /\ "a" \in CasesOfCall

\* new_segment_texts[j] of the call (the cleaned text where the call
\* returned before re-aggregating)
ReAggregated(j) ==
    IF tj_replacements = <<>> THEN Flat.text_segments[j + 1].clean
    ELSE aggregate(rebuild(Flat.combined_text, Flat.char_owner_indices,
                           tj_replacements, 1, 0), j)

\* the segments whose re-aggregated text differs from their cleaned text
ChangedSegments ==
    {j \in 0..(Len(Flat.text_segments) - 1) :
        ReAggregated(j) # Flat.text_segments[j + 1].clean}

\* C20: the returned array has the length and item kinds of the given one;
\* every item that is not a string is the given item at its index; every
\* string item whose re-aggregated text is its cleaned text is the given
\* item, raw text kept; modified holds iff some segment's re-aggregated text
\* differs from its cleaned text.
C20_RewriterFrame ==
    v2pc = "done" =>
        /\ Len(new_array) = Len(array_obj)
        /\ \A i \in 1..Len(array_obj) :
              /\ new_array[i].kind = array_obj[i].kind
              /\ array_obj[i].kind # "text" => new_array[i] = array_obj[i]
        /\ \A j \in 0..(Len(Flat.text_segments) - 1) :
              j \notin ChangedSegments
                 => new_array[Flat.text_segments[j + 1].array_index + 1]
                       = array_obj[Flat.text_segments[j + 1].array_index + 1]
        /\ modified <=> ChangedSegments # {}

\* C20 witness: matches were found and no segment changed; the array holds a
\* string with a control character and a numeric item
C20_Witness ==
    /\ v2pc = "done"
    /\ tj_replacements # <<>>
    /\ ~modified
    /\ \E i \in 1..Len(array_obj) :
          array_obj[i].kind = "text" /\ clean_special_chars(array_obj[i].s) # array_obj[i].s
    /\ \E i \in 1..Len(array_obj) : array_obj[i].kind = "number"

\* a modified array in which a string with a control character was not
\* changed
C20_ChangedWitness ==
    /\ v2pc = "done"
    /\ modified
    /\ \E j \in 0..(Len(Flat.text_segments) - 1) :
          /\ j \notin ChangedSegments
          /\ Flat.text_segments[j + 1].clean # Flat.text_segments[j + 1].raw

(***************************************************************************)
(* apply_word_mapping and the processing modes it routes to.               *)
(*                                                                         *)
(* A PDF is the sequence of the names of the steps that produced it from   *)
(* the PDF handed in.  trace records every call to the logger and to a     *)
(* processing step, in order, with the arguments it received.              *)
(***************************************************************************)
DEFAULT_DPI == 220
DEFAULT_MIN_CONFIDENCE == 60

\* str.strip()
RECURSIVE lstrip(_)
lstrip(s) == IF s # <<>> /\ Head(s) \in Whitespace THEN lstrip(Tail(s)) ELSE s

RECURSIVE rstrip(_)
rstrip(s) ==
    IF s # <<>> /\ s[Len(s)] \in Whitespace THEN rstrip(SubSeq(s, 1, Len(s) - 1)) ELSE s

strip(s) == rstrip(lstrip(s))

\* the test of the dict comprehension of apply_word_mapping
\* a variant of is_valid_entry that tests the strings as given
is_valid_entry_unstripped(original, replacement) ==
    original # <<>> /\ replacement # <<>>

\* `if original.strip() and replacement.strip()`
is_valid_entry(original, replacement) ==
    strip(original) # <<>> /\ strip(replacement) # <<>>

\* the dict comprehension of apply_word_mapping over the first i entries
RECURSIVE clean_mapping_upto(_, _)
clean_mapping_upto(m, i) ==
    IF i = 0 THEN <<>>
    ELSE IF is_valid_entry(m[i].k, m[i].v)
    THEN DictSet(clean_mapping_upto(m, i - 1), strip(m[i].k), strip(m[i].v))
    ELSE clean_mapping_upto(m, i - 1)

\* one call recorded in trace
Call(name, text, bytes, table, targets, opts) ==
    [call |-> name, text |-> text, bytes |-> bytes, mapping |-> table,
     overlays |-> targets, opts |-> opts, error |-> ""]

\* logger.log_error(e, context)
LogError(error, context) ==
    [call |-> "log_error", text |-> context, bytes |-> <<>>, mapping |-> <<>>,
     overlays |-> <<>>, opts |-> <<>>, error |-> error]

\* a call to the logger
Log(name, text, bytes, table) == Call(name, text, bytes, table, <<>>, <<>>)

\* a call to a processing step
Step(name, bytes, table, targets) == Call(name, "", bytes, table, targets, <<>>)

\* apply_word_mapping, lines 276-279: the input is logged
logged_input(bytes, how, table) ==
    << Log("log_input_pdf", "", bytes, <<>>),
       Log("log_mode_selection", how, <<>>, <<>>),
       Log("log_mappings", "", <<>>, table) >>

\* a variant of handler_call that routes every mode but "font" to overlay
handler_call_without_ocr(how, bytes, table) ==
    IF how = "font" THEN Step("_apply_font_mode_mapping", bytes, table, <<>>)
    ELSE Step("_apply_overlay_mode_mapping", bytes, table, <<>>)

\* apply_word_mapping, lines 294-299: the call the mode selects
handler_call(how, bytes, table) ==
    IF how = "font" THEN Step("_apply_font_mode_mapping", bytes, table, <<>>)
    ELSE IF how = "ocr"
    THEN Call("apply_image_ocr_mapping", "", bytes, table, <<>>,
              <<DEFAULT_DPI, DEFAULT_MIN_CONFIDENCE>>)
    ELSE Step("_apply_overlay_mode_mapping", bytes, table, <<>>)

\* where the handler of a call starts
handler_entry(name) ==
    IF name = "_apply_font_mode_mapping" THEN "tfont"
    ELSE IF name = "apply_image_ocr_mapping" THEN "ocr"
    ELSE "collect"

\* apply_word_mapping, lines 301-303: the handler returned bytes
finished(calls, bytes) ==
    [trace |-> calls \o << Log("log_output_pdf", "", bytes, <<>>),
                           Log("finalize_run", "", <<>>, <<>>) >>,
     outcome |-> [kind |-> "return", value |-> bytes]]

\* apply_word_mapping, lines 305-308: the handler raised error
failed(calls, how, error) ==
    [trace |-> calls \o << LogError(error, how),
                           Log("finalize_run", "", <<>>, <<>>) >>,
     outcome |-> [kind |-> "raise", value |-> <<error>>]]

\* a variant of after_rewrite that never sanitises
after_rewrite_unsanitized(sanitize) == "overlay"

\* `processed = _sanitize_text_layer(rewritten) if sanitize else rewritten`:
\* the step that follows a successful rewrite
after_rewrite(sanitize) == IF sanitize THEN "sanitize" ELSE "overlay"

(***************************************************************************)
(* Inputs of apply_word_mapping.                                           *)
(***************************************************************************)
MaxEntries == 2

\* keys and values as a user types them: padded, blank, empty
UserKeys == { <<"V">>, <<" ", "V", "TAB">>, <<"a", " ", "b">>, <<" ">>, <<>> }
UserValues == { <<"A">>, <<"LF", "A", " ">>, <<" ", " ">>, <<>> }

\* dicts of up to n entries
RECURSIVE DictsUpTo(_)
DictsUpTo(n) ==
    IF n = 0 THEN {<<>>}
    ELSE DictsUpTo(n - 1)
         \cup {Append(d, Pair(key, value)) :
                  d \in {e \in DictsUpTo(n - 1) : Len(e) = n - 1},
                  key \in UserKeys, value \in UserValues}

UserMappings == {d \in DictsUpTo(MaxEntries) :
                    \A i, j \in 1..Len(d) : i # j => d[i].k # d[j].k}

Modes == {"overlay", "font", "ocr", "auto"}

\* what _collect_overlay_targets can capture
OverlayTargets == {<<>>, <<"t1">>, <<"t1", "t2">>, <<"t2", "t1">>}

(***************************************************************************)
(* SpecModes: one call of apply_word_mapping.                              *)
(***************************************************************************)
ModesInit ==
    /\ app_pc = "call"
    /\ mode \in Modes
    /\ pdf_bytes = <<"pdf">>
    /\ user_mapping \in UserMappings
    /\ clean_mapping = <<>>
    /\ overlays = <<>>
    /\ stage_bytes = <<>>
    /\ trace = <<>>
    /\ outcome = [kind |-> "none", value |-> <<>>]
    /\ mapping = <<>>
    /\ V2Idle
    /\ EngineIdle
    /\ ParIdle
    /\ CallIdle

\* apply_word_mapping up to the call of the handler; with no valid entry it
\* returns pdf_bytes
ApplyWordMapping ==
    /\ app_pc = "call"
    /\ \E cleaned \in {clean_mapping_upto(user_mapping, Len(user_mapping))} :
          /\ clean_mapping' = cleaned
          /\ IF cleaned = <<>>
             THEN /\ trace' = logged_input(pdf_bytes, mode, user_mapping)
                                 \o <<Log("warning", "", <<>>, <<>>)>>
                  /\ outcome' = [kind |-> "return", value |-> pdf_bytes]
                  /\ app_pc' = "returned"
             ELSE /\ trace' = logged_input(pdf_bytes, mode, user_mapping)
                                 \o << Log("log_mappings", "", <<>>, cleaned),
                                       handler_call(mode, pdf_bytes, cleaned) >>
                  /\ outcome' = outcome
                  /\ app_pc' = handler_entry(handler_call(mode, pdf_bytes, cleaned).call)
    /\ UNCHANGED <<mode, pdf_bytes, user_mapping, overlays, stage_bytes, mapping>>
    /\ UNCHANGED v2vars
    /\ UNCHANGED engvars
    /\ UNCHANGED parvars
    /\ UNCHANGED callvars

\* the running handler returns bytes to apply_word_mapping, which returns them
HandlerReturns(calls, bytes) ==
    /\ trace' = finished(calls, bytes).trace
    /\ outcome' = finished(calls, bytes).outcome
    /\ app_pc' = "returned"

\* a step of the running handler raises; apply_word_mapping logs and re-raises
HandlerRaises(calls, error) ==
    /\ trace' = failed(calls, mode, error).trace
    /\ outcome' = failed(calls, mode, error).outcome
    /\ app_pc' = "raised"

\* apply_image_ocr_mapping returns
OcrReturns ==
    /\ app_pc = "ocr"
    /\ HandlerReturns(trace, Append(pdf_bytes, "ocr"))
    /\ UNCHANGED <<mode, pdf_bytes, user_mapping, clean_mapping, overlays,
                   stage_bytes, mapping>>
    /\ UNCHANGED v2vars
    /\ UNCHANGED engvars
    /\ UNCHANGED parvars
    /\ UNCHANGED callvars

\* apply_image_ocr_mapping raises
OcrRaises ==
    /\ app_pc = "ocr"
    /\ HandlerRaises(trace, "apply_image_ocr_mapping")
    /\ UNCHANGED <<mode, pdf_bytes, user_mapping, clean_mapping, overlays,
                   stage_bytes, mapping>>
    /\ UNCHANGED v2vars
    /\ UNCHANGED engvars
    /\ UNCHANGED parvars
    /\ UNCHANGED callvars

\* _apply_font_mode_mapping: apply_tfont_mapping returns
TFontReturns ==
    /\ app_pc = "tfont"
    /\ HandlerReturns(Append(trace, Step("apply_tfont_mapping", pdf_bytes,
                                         clean_mapping, <<>>)),
                      Append(pdf_bytes, "tfont"))
    /\ UNCHANGED <<mode, pdf_bytes, user_mapping, clean_mapping, overlays,
                   stage_bytes, mapping>>
    /\ UNCHANGED v2vars
    /\ UNCHANGED engvars
    /\ UNCHANGED parvars
    /\ UNCHANGED callvars

\* _apply_font_mode_mapping: apply_tfont_mapping raises, the overlay
\* pipeline is called instead
TFontFails ==
    /\ app_pc = "tfont"
    /\ trace' = trace \o << Step("apply_tfont_mapping", pdf_bytes, clean_mapping, <<>>),
                            LogError("apply_tfont_mapping", "font_mode_mapping"),
                            Log("warning", "", <<>>, <<>>),
                            Step("_apply_overlay_mode_mapping", pdf_bytes,
                                 clean_mapping, <<>>) >>
    /\ app_pc' = "collect"
    /\ UNCHANGED <<mode, pdf_bytes, user_mapping, clean_mapping, overlays,
                   stage_bytes, outcome, mapping>>
    /\ UNCHANGED v2vars
    /\ UNCHANGED engvars
    /\ UNCHANGED parvars
    /\ UNCHANGED callvars

\* _apply_overlay_mode_mapping: _collect_overlay_targets captures overlays
CollectOverlayTargets ==
    /\ app_pc = "collect"
    /\ \E captured \in OverlayTargets :
          /\ overlays' = captured
          /\ trace' = Append(trace, Step("_collect_overlay_targets", pdf_bytes,
                                         <<>>, captured))
    /\ app_pc' = "rewrite"
    /\ UNCHANGED <<mode, pdf_bytes, user_mapping, clean_mapping, stage_bytes,
                   outcome, mapping>>
    /\ UNCHANGED v2vars
    /\ UNCHANGED engvars
    /\ UNCHANGED parvars
    /\ UNCHANGED callvars

\* _apply_content_stream_mapping returns the rewritten PDF
RewriteSucceeds ==
    /\ app_pc = "rewrite"
    /\ trace' = Append(trace, Step("_apply_content_stream_mapping", pdf_bytes,
                                   clean_mapping, <<>>))
    /\ stage_bytes' = Append(pdf_bytes, "rewritten")
    /\ app_pc' = after_rewrite(TRUE)
    /\ UNCHANGED <<mode, pdf_bytes, user_mapping, clean_mapping, overlays,
                   outcome, mapping>>
    /\ UNCHANGED v2vars
    /\ UNCHANGED engvars
    /\ UNCHANGED parvars
    /\ UNCHANGED callvars

\* _apply_content_stream_mapping returns None
RewriteUnavailable ==
    /\ app_pc = "rewrite"
    /\ trace' = trace \o << Step("_apply_content_stream_mapping", pdf_bytes,
                                 clean_mapping, <<>>),
                            Log("warning", "", <<>>, <<>>) >>
    /\ app_pc' = "fallback"
    /\ UNCHANGED <<mode, pdf_bytes, user_mapping, clean_mapping, overlays,
                   stage_bytes, outcome, mapping>>
    /\ UNCHANGED v2vars
    /\ UNCHANGED engvars
    /\ UNCHANGED parvars
    /\ UNCHANGED callvars

\* _sanitize_text_layer(rewritten); with no overlay the pipeline returns
SanitizeRewritten ==
    /\ app_pc = "sanitize"
    /\ stage_bytes' = Append(stage_bytes, "sanitized")
    /\ IF overlays # <<>>
       THEN /\ trace' = Append(trace, Step("_sanitize_text_layer", stage_bytes,
                                           <<>>, <<>>))
            /\ app_pc' = "overlay"
            /\ outcome' = outcome
       ELSE HandlerReturns(Append(trace, Step("_sanitize_text_layer", stage_bytes,
                                              <<>>, <<>>)),
                           Append(stage_bytes, "sanitized"))
    /\ UNCHANGED <<mode, pdf_bytes, user_mapping, clean_mapping, overlays, mapping>>
    /\ UNCHANGED v2vars
    /\ UNCHANGED engvars
    /\ UNCHANGED parvars
    /\ UNCHANGED callvars

\* _apply_overlays(processed, overlays); the pipeline returns its result
ApplyOverlays ==
    /\ app_pc = "overlay"
    /\ stage_bytes' = Append(stage_bytes, "overlaid") \o overlays
    /\ HandlerReturns(Append(trace, Step("_apply_overlays", stage_bytes, <<>>, overlays)),
                      Append(stage_bytes, "overlaid") \o overlays)
    /\ UNCHANGED <<mode, pdf_bytes, user_mapping, clean_mapping, overlays, mapping>>
    /\ UNCHANGED v2vars
    /\ UNCHANGED engvars
    /\ UNCHANGED parvars
    /\ UNCHANGED callvars

\* the fallback: process_pdf_with_pymupdf(pdf_bytes, clean_mapping, mode="font"),
\* then _sanitize_text_layer
FontFallback ==
    /\ app_pc = "fallback"
    /\ stage_bytes' = Append(Append(pdf_bytes, "pymupdf-font"), "sanitized")
    /\ HandlerReturns(trace \o << Call("process_pdf_with_pymupdf", "font", pdf_bytes,
                                       clean_mapping, <<>>, <<>>),
                                  Step("_sanitize_text_layer",
                                       Append(pdf_bytes, "pymupdf-font"), <<>>, <<>>) >>,
                      Append(Append(pdf_bytes, "pymupdf-font"), "sanitized"))
    /\ UNCHANGED <<mode, pdf_bytes, user_mapping, clean_mapping, overlays, mapping>>
    /\ UNCHANGED v2vars
    /\ UNCHANGED engvars
    /\ UNCHANGED parvars
    /\ UNCHANGED callvars

\* a step of the overlay pipeline raises
PipelineRaises ==
    /\ app_pc \in {"collect", "rewrite", "sanitize", "overlay", "fallback"}
    /\ HandlerRaises(trace, app_pc)
    /\ UNCHANGED <<mode, pdf_bytes, user_mapping, clean_mapping, overlays,
                   stage_bytes, mapping>>
    /\ UNCHANGED v2vars
    /\ UNCHANGED engvars
    /\ UNCHANGED parvars
    /\ UNCHANGED callvars

ModesNext ==
    \/ ApplyWordMapping
    \/ OcrReturns
    \/ OcrRaises
    \/ TFontReturns
    \/ TFontFails
    \/ CollectOverlayTargets
    \/ RewriteSucceeds
    \/ RewriteUnavailable
    \/ SanitizeRewritten
    \/ ApplyOverlays
    \/ FontFallback
    \/ PipelineRaises

SpecModes == ModesInit /\ [][ModesNext]_vars

(***************************************************************************)
(* Two invocations of process_content_stream_with_cross_array_support in   *)
(* two threads.  Each builds its own CrossArrayProcessor, whose fields are *)
(* its pattern and tables and the logger; the locals of its call are its   *)
(* current list, its flags and its matches.  Module level holds            *)
(* _current_logger only.  `mapping` is self.mapping of the processor that  *)
(* is executing, so it changes when the other thread is scheduled.         *)
(***************************************************************************)
Threads == {1, 2}

\* a variant of processor_of in which every invocation uses the processor
\* built by the first one
processor_shared(t) == 1

\* `processor = CrossArrayProcessor(pattern, mapping, mapping_cf)`: the
\* processor thread t executes is the one its own invocation built
processor_of(t) == t

\* the stream inputs of a thread: the stream, the mapping, and the result of
\* the invocation when no other thread runs
EqualsZero == TJ(<<TextStringObject(<<"=">>), NumberObject(-200), TextStringObject(<<"0">>)>>)
NineColon == TJ(<<TextStringObject(<<"9", ":">>)>>)
DecimalMapping ==
    <<Pair(<<"0", ".", "9", ":">>, <<"9", ".", "0", ":">>), Pair(<<"a", "b">>, <<"X">>)>>

ParInputs == {
    [stream |-> <<EqualsZero, NineColon>>, mapping |-> DecimalMapping,
     alone |-> [operations |->
                   <<TJ(<<TextStringObject(<<"=">>), NumberObject(-200),
                          TextStringObject(<<"9">>)>>),
                     TJ(<<TextStringObject(<<".", "0", ":">>)>>)>>,
                modified |-> TRUE]],
    [stream |-> <<Tj(<<"a", "b">>), NineColon>>, mapping |-> DecimalMapping,
     alone |-> [operations |-> <<Tj(<<"X">>), NineColon>>, modified |-> TRUE]],
    [stream |-> <<EqualsZero, NineColon>>,
     mapping |-> <<Pair(<<"9", ":">>, <<"8", ":">>)>>,
     alone |-> [operations |-> <<EqualsZero, TJ(<<TextStringObject(<<"8", ":">>)>>)>>,
                modified |-> TRUE]],
    [stream |-> <<TJ(<<TextStringObject(<<"a", "b">>)>>), EqualsZero, NineColon>>,
     mapping |-> DecimalMapping,
     alone |-> [operations |->
                   <<TJ(<<TextStringObject(<<"X">>)>>),
                     TJ(<<TextStringObject(<<"=">>), NumberObject(-200),
                          TextStringObject(<<".", "0">>)>>),
                     TJ(<<TextStringObject(<<".", "0", ":">>)>>)>>,
                modified |-> TRUE]],
    [stream |-> <<EqualsZero, NineColon>>, mapping |-> <<>>,
     alone |-> [operations |-> <<EqualsZero, NineColon>>, modified |-> FALSE]] }

\* the parsed stream appended to what was parsed before
RECURSIVE LoadInto(_, _, _)
LoadInto(acc, stream, n) ==
    IF n = 0 THEN acc ELSE LoadInstruction(LoadInto(acc, stream, n - 1), stream[n])

\* the locals of an invocation before its processor is built
NewThread(input, operations) ==
    [pc |-> "get_logger", input |-> input, mapping |-> input.mapping,
     given |-> operations, operations |-> operations,
     v2_modified |-> FALSE, any_modified |-> FALSE, cross_matches |-> <<>>,
     result |-> [operations |-> <<>>, modified |-> FALSE],
     logger |-> 0, v2_logger |-> 0]

\* a step of process_content_operations: the locals and the heap after it
Stepped(e, heap) == [thread |-> e, heap |-> heap]

\* `return operations, flag`
engine_return(e, heap, flag) ==
    Stepped([e EXCEPT !.pc = "done",
                      !.result = [operations |-> e.operations, modified |-> flag]],
            heap)

\* phase 1 returned r
engine_after_v2(e, r) ==
    Stepped([e EXCEPT !.operations = r.operations, !.v2_modified = r.any_modified,
                      !.pc = "phase2"],
            r.arrays)

\* phase 2 found the matches found
engine_after_find(e, heap, found) ==
    IF found = <<>> THEN engine_return(e, heap, e.v2_modified)
    ELSE Stepped([e EXCEPT !.cross_matches = found, !.pc = "apply"], heap)

\* the last match was applied with result r
engine_after_apply(e, r) ==
    Stepped([e EXCEPT !.operations = r.operations,
                      !.any_modified = (e.any_modified \/ r.success),
                      !.cross_matches = SubSeq(e.cross_matches, 1,
                                               Len(e.cross_matches) - 1)],
            r.arrays)

\* one step of process_content_operations on the locals e
engine_step(e, heap) ==
    IF e.pc = "phase1"
    THEN IF e.operations = <<>> THEN engine_return(e, heap, FALSE)
         ELSE engine_after_v2(e, apply_v2_processor(e.operations, heap))
    ELSE IF e.pc = "phase2"
    THEN engine_after_find(e, heap, matches_to_apply(e.operations, heap))
    ELSE IF e.cross_matches = <<>>
    THEN engine_return(e, heap, e.v2_modified \/ e.any_modified)
    ELSE engine_after_apply(e,
            apply_cross_array_replacement(e.operations, heap,
                                          e.cross_matches[Len(e.cross_matches)]))

\* process_content_operations run to its return
RECURSIVE engine_run(_)
engine_run(s) ==
    IF s.thread.pc = "done" THEN s ELSE engine_run(engine_step(s.thread, s.heap))

(***************************************************************************)
(* SpecPar: the two invocations, interleaved step by step.                 *)
(***************************************************************************)
ParInit ==
    /\ \E in1 \in ParInputs, in2 \in ParInputs :
          \E first \in {Load(in1.stream, Len(in1.stream))} :
             \E both \in {LoadInto(first, in2.stream, Len(in2.stream))} :
                /\ threads = << NewThread(in1, first.operations),
                                NewThread(in2, SubSeq(both.operations,
                                                      Len(first.operations) + 1,
                                                      Len(both.operations))) >>
                /\ par_heap = both.arrays
                /\ mapping = in1.mapping
    /\ running = 1
    /\ current_logger = 0
    /\ loggers = <<>>
    /\ V2Idle
    /\ EngineIdle
    /\ AppIdle
    /\ CallIdle

\* the scheduler runs thread t: the code of its processor executes
Switch(t) ==
    /\ running # t
    /\ running' = t
    /\ mapping' = threads[processor_of(t)].mapping
    /\ UNCHANGED <<threads, current_logger, loggers, par_heap>>
    /\ UNCHANGED v2vars
    /\ UNCHANGED engvars
    /\ UNCHANGED appvars
    /\ UNCHANGED callvars

\* get_logger, called by CrossArrayProcessor.__init__: _current_logger is
\* read; when it is not None it is returned
CheckLogger(t) ==
    /\ running = t
    /\ threads[t].pc = "get_logger"
    /\ threads' = [threads EXCEPT ![t].pc = IF current_logger = 0 THEN "create_logger"
                                            ELSE "return_logger"]
    /\ UNCHANGED <<running, mapping, current_logger, loggers, par_heap>>
    /\ UNCHANGED v2vars
    /\ UNCHANGED engvars
    /\ UNCHANGED appvars
    /\ UNCHANGED callvars

\* get_logger: `_current_logger = PDFProcessingLogger()`; the constructor
\* writes the first line of the new logger
CreateLogger(t) ==
    /\ running = t
    /\ threads[t].pc = "create_logger"
    /\ loggers' = Append(loggers, 1)
    /\ current_logger' = Len(loggers) + 1
    /\ threads' = [threads EXCEPT ![t].pc = "return_logger"]
    /\ UNCHANGED <<running, mapping, par_heap>>
    /\ UNCHANGED v2vars
    /\ UNCHANGED engvars
    /\ UNCHANGED appvars
    /\ UNCHANGED callvars

\* get_logger: `return _current_logger`, the global read again
ReturnLogger(t) ==
    /\ running = t
    /\ threads[t].pc = "return_logger"
    /\ threads' = [threads EXCEPT ![t].pc = "get_v2_logger",
                                  ![t].logger = current_logger]
    /\ UNCHANGED <<running, mapping, current_logger, loggers, par_heap>>
    /\ UNCHANGED v2vars
    /\ UNCHANGED engvars
    /\ UNCHANGED appvars
    /\ UNCHANGED callvars

\* get_logger, called by TJArrayProcessorV2.__init__
GetV2Logger(t) ==
    /\ running = t
    /\ threads[t].pc = "get_v2_logger"
    /\ current_logger # 0
    /\ threads' = [threads EXCEPT ![t].pc = "phase1", ![t].v2_logger = current_logger]
    /\ UNCHANGED <<running, mapping, current_logger, loggers, par_heap>>
    /\ UNCHANGED v2vars
    /\ UNCHANGED engvars
    /\ UNCHANGED appvars
    /\ UNCHANGED callvars

\* the logger a step writes to: phase 1 runs in the V2 processor
logger_of(e) == IF e.pc = "phase1" THEN e.v2_logger ELSE e.logger

\* a step of process_content_operations in thread t; it writes a line
EngineStep(t) ==
    /\ running = t
    /\ threads[t].pc \in {"phase1", "phase2", "apply"}
    /\ \E s \in {engine_step(threads[t], par_heap)} :
          /\ threads' = [threads EXCEPT ![t] = s.thread]
          /\ par_heap' = s.heap
    /\ loggers' = [loggers EXCEPT ![logger_of(threads[t])] = @ + 1]
    /\ UNCHANGED <<running, mapping, current_logger>>
    /\ UNCHANGED v2vars
    /\ UNCHANGED engvars
    /\ UNCHANGED appvars
    /\ UNCHANGED callvars

ParNext ==
    \E t \in Threads :
        \/ Switch(t)
        \/ CheckLogger(t)
        \/ CreateLogger(t)
        \/ ReturnLogger(t)
        \/ GetV2Logger(t)
        \/ EngineStep(t)

SpecPar == ParInit /\ [][ParNext]_vars

\* C29: for every string item the rewriter emits as changed, cleaning the
\* emitted string (the new aggregated text plus the re-appended trailing
\* control characters of the raw original) gives back the new aggregated
\* text: re-appending the suffix duplicates no ligature expansion.
C29_ChangedSegmentRoundTrip ==
    v2pc = "done" =>
        \A j \in ChangedSegments :
            clean_special_chars(new_array[Flat.text_segments[j + 1].array_index + 1].s)
                = ReAggregated(j)

(***************************************************************************)
(* Claims about the cross-instruction matcher (Spec)                       *)
(***************************************************************************)
\* the list phase 2 scans: the one phase 1 returned
Scanned == lists[IF Len(lists) >= 2 THEN 2 ELSE 1]

\* positions (from 1) of the TJ instructions of the scanned list whose
\* operand is an array
Participants == {i \in 1..Len(Scanned) : IsTJArray(Scanned[i])}

\* position of the k-th participant, k from 0
Participant(k) ==
    CHOOSE i \in Participants : Cardinality({j \in Participants : j < i}) = k

\* the flattened text of the k-th participant
ParticipantText(k) == extract_array_text(arrays[Scanned[Participant(k)].operands[1].ref])

\* the participants window i is to hold: i .. min(i + 2, n - 1)
WindowMembers(i) ==
    [w \in 1..((IF i + 2 <= Cardinality(Participants) - 1
                THEN i + 2 ELSE Cardinality(Participants) - 1) - i + 1) |-> i + w - 1]

\* the non-empty texts of the members from the w-th on, with single spaces
RECURSIVE SpacedTexts(_, _)
SpacedTexts(members, w) ==
    IF w > Len(members) THEN <<>>
    ELSE IF ParticipantText(members[w]) = <<>> THEN SpacedTexts(members, w + 1)
    ELSE IF SpacedTexts(members, w + 1) = <<>> THEN ParticipantText(members[w])
    ELSE ParticipantText(members[w]) \o <<" ">> \o SpacedTexts(members, w + 1)

\* every match phase 2 found, applied or not yet
FoundMatches ==
    {cross_matches[k] : k \in 1..Len(cross_matches)}
        \cup {applied_log[k].match : k \in 1..Len(applied_log)}

\* a match carries the window it was found in
MatchOfWindow(m) ==
    /\ m.window_start \in 0..(Cardinality(Participants) - 2)
    /\ m.window_operations =
          [w \in 1..Len(WindowMembers(m.window_start)) |->
              Participant(WindowMembers(m.window_start)[w]) - 1]
    /\ m.window_text = SpacedTexts(WindowMembers(m.window_start), 1)

\* the windows the matcher builds over the scanned list
BuiltWindow(i) == window_of(tj_operations_of(Scanned, arrays), i)

\* C22: only TJ instructions whose operand is an array take part; with n of
\* them there are n - 1 windows (none when n < 2); window i holds
\* participants i .. min(i + 2, n - 1) in stream order, hence 2 or 3
\* instructions and never a plain-string instruction; the window text is the
\* non-empty flattened texts joined by single spaces.
C22_WindowConstruction ==
    (pc \in {"phase2", "apply", "done"} /\ Len(lists) >= 2) =>
        /\ Len(tj_operations_of(Scanned, arrays)) = Cardinality(Participants)
        /\ \A i \in 0..(Cardinality(Participants) - 2) :
              /\ Len(BuiltWindow(i)) \in {2, 3}
              /\ Len(BuiltWindow(i)) = Len(WindowMembers(i))
              /\ \A w \in 1..Len(BuiltWindow(i)) :
                    /\ BuiltWindow(i)[w].index = Participant(WindowMembers(i)[w]) - 1
                    /\ Scanned[BuiltWindow(i)[w].index + 1].operator = "TJ"
                    /\ BuiltWindow(i)[w].array = arrays[Scanned[BuiltWindow(i)[w].index + 1].operands[1].ref]
              /\ build_window_text([w \in 1..Len(BuiltWindow(i)) |-> BuiltWindow(i)[w].array])
                    = SpacedTexts(WindowMembers(i), 1)
        /\ Cardinality(Participants) < 2 => matches_to_apply(Scanned, arrays) = <<>>
        /\ \A m \in FoundMatches : MatchOfWindow(m)

\* three participants: a match was found in the window of three and another
\* in the last window, of two
C22_Witness ==
    /\ pc = "apply"
    /\ Cardinality(Participants) = 3
    /\ \E m \in FoundMatches : m.window_start = 0 /\ Len(m.window_operations) = 3
    /\ \E m \in FoundMatches : m.window_start = 1 /\ Len(m.window_operations) = 2

\* a plain-string instruction lies between the two participants of a window
\* in which a match was found
C22_SkippedStringWitness ==
    /\ pc = "apply"
    /\ Len(Scanned) = 3
    /\ Scanned[2].operator = "Tj"
    /\ \E m \in FoundMatches : m.window_operations = <<0, 2>>

\* where the text of the w-th member of a window starts in the window text
RECURSIVE MemberOffset(_, _)
MemberOffset(members, w) ==
    IF w <= 1 THEN 0
    ELSE MemberOffset(members, w - 1)
         + (IF ParticipantText(members[w - 1]) = <<>> THEN 0
            ELSE Len(ParticipantText(members[w - 1])) + 1)

\* the span of match m lies inside the text of one instruction of its window
WhollyInside(m) ==
    \E w \in 1..Len(WindowMembers(m.window_start)) :
        /\ MemberOffset(WindowMembers(m.window_start), w) <= m.match_start
        /\ m.match_end <= MemberOffset(WindowMembers(m.window_start), w)
                           + Len(ParticipantText(WindowMembers(m.window_start)[w]))

\* C23: every match the cross-instruction matcher reports has a span that
\* crosses the boundary between two instructions of its window; a hit that
\* lies wholly inside the text of one instruction is never reported.
C23_MatchesCrossABoundary ==
    \A m \in FoundMatches : ~WhollyInside(m)

\* a match whose token is not the text at its span: decimal recovery
\* synthesized it (the three expressions match no ".")
FromDecimalRecovery(m) ==
    Slice(m.window_text, m.match_start, m.match_end) # m.original

\* what the exact table, or else the folded table, holds for token
Resolved(token) ==
    IF \E i \in 1..Len(mapping) : mapping[i].k = token
    THEN {mapping[i].v : i \in {j \in 1..Len(mapping) : mapping[j].k = token}}
    ELSE {mapping[i].v :
            i \in {j \in 1..Len(mapping) :
                     /\ casefold(mapping[j].k) = casefold(token)
                     /\ \A later \in (j + 1)..Len(mapping) :
                           casefold(mapping[later].k) # casefold(token)}}

\* the hits of the three decimal-recovery expressions in the windows of the
\* scanned list
RecoveryHits ==
    UNION { {h \in DecimalHits(SpacedTexts(WindowMembers(i), 1)) : h.ok} :
              i \in 0..(Cardinality(Participants) - 2) }

\* C24: a hit of a decimal-recovery expression produces a match only if the
\* token digit1 "." digit2 ":" resolves, exact table first and folded table
\* second, to a replacement different from the token; when no synthesized
\* token of any window resolves, no match comes from decimal recovery, so
\* decimal recovery changes no instruction.
C24_DecimalRecoveryIsGated ==
    (pc \in {"phase2", "apply", "done"} /\ Len(lists) >= 2) =>
        /\ \A m \in FoundMatches :
              FromDecimalRecovery(m) =>
                 /\ \E h \in DecimalHits(m.window_text) :
                       /\ h.ok
                       /\ h.start = m.match_start
                       /\ h.end = m.match_end
                       /\ reconstructed(h) = m.original
                 /\ m.replacement \in Resolved(m.original)
                 /\ m.replacement # m.original
        /\ (\A h \in RecoveryHits : Resolved(reconstructed(h)) = {})
              => /\ \A m \in FoundMatches : ~FromDecimalRecovery(m)
                 /\ \A k \in 1..Len(applied_log) :
                       applied_log[k].before # applied_log[k].after
                          => ~FromDecimalRecovery(applied_log[k].match)

\* a match synthesized by decimal recovery was found and applied
C24_Witness ==
    /\ pc = "apply"
    /\ \E k \in 1..Len(applied_log) :
          /\ FromDecimalRecovery(applied_log[k].match)
          /\ applied_log[k].before # applied_log[k].after

\* the expressions hit in a window, no synthesized token is in a table, and
\* the engine returned without a match
C24_UngatedHitWitness ==
    /\ pc = "done"
    /\ mapping # <<>>
    /\ RecoveryHits # {}
    /\ \A h \in RecoveryHits : Resolved(reconstructed(h)) = {}
    /\ applied_log = <<>>

\* the synthesized token is mapped to itself and no match was produced
C24_IdentityWitness ==
    /\ pc = "done"
    /\ \E h \in RecoveryHits : Resolved(reconstructed(h)) = {reconstructed(h)}
    /\ applied_log = <<>>

\* the w-th member of the window of match m contributes characters to its span
Contributes(m, w) ==
    /\ MemberOffset(WindowMembers(m.window_start), w) < m.match_end
    /\ m.match_start < MemberOffset(WindowMembers(m.window_start), w)
                        + Len(ParticipantText(WindowMembers(m.window_start)[w]))

\* how many members before the w-th contribute to the span of m
ContributorsBefore(m, w) == Cardinality({v \in 1..(w - 1) : Contributes(m, v)})

\* the rewriter of match m may change the w-th member of its window: the
\* first contributing instruction and, for a decimal token, the second
MayChange(m, w) ==
    /\ Contributes(m, w)
    /\ \/ ContributorsBefore(m, w) = 0
       \/ /\ ContributorsBefore(m, w) = 1
          /\ Contains(m.original, <<".">>)
          /\ Contains(m.original, <<":">>)

\* C25: a cross-instruction rewrite changes only instructions that
\* contribute characters to the match span: the first contributing
\* instruction and, for decimal recovery, the second; an instruction of
\* the window before or after the span is left unchanged.
C25_RewriteTargetsContributors ==
    \A k \in 1..Len(applied_log) :
        \A j \in 1..Len(applied_log[k].before) :
            applied_log[k].before[j] # applied_log[k].after[j]
              => \E w \in 1..Len(WindowMembers(applied_log[k].match.window_start)) :
                    /\ Participant(WindowMembers(applied_log[k].match.window_start)[w]) = j
                    /\ MayChange(applied_log[k].match, w)

\* the first digit of a token or, for a token without digits, its first
\* character
LeadOf(token) ==
    IF \E p \in 1..Len(token) : IsDigit(token[p])
    THEN token[CHOOSE p \in 1..Len(token) :
                  IsDigit(token[p]) /\ \A q \in 1..(p - 1) : ~IsDigit(token[q])]
    ELSE token[1]

\* the general case: the token is not a decimal one
GeneralCase(m) == ~(Contains(m.original, <<".">>) /\ Contains(m.original, <<":">>))

\* position in the list of the first instruction contributing to the span of m
FirstContributor(m) ==
    Participant(WindowMembers(m.window_start)[
        CHOOSE w \in 1..Len(WindowMembers(m.window_start)) :
            Contributes(m, w) /\ ContributorsBefore(m, w) = 0])

\* the string items of an instruction given by value
TextsOf(instruction) ==
    {instruction.operands[1].items[p].s :
        p \in {q \in 1..Len(instruction.operands[1].items) :
                 instruction.operands[1].items[q].kind = "text"}}

\* C27: in the general case, when a string item of the first contributing
\* instruction contains the first digit (for a token without digits the
\* first character) of the original token and the replacement has another
\* character there, the rewrite changes the text of that instruction.
C27_GeneralCaseRewritesLead ==
    \A k \in 1..Len(applied_log) :
        (/\ GeneralCase(applied_log[k].match)
         /\ LeadOf(applied_log[k].match.original) # LeadOf(applied_log[k].match.replacement)
         /\ \E t \in TextsOf(applied_log[k].before[FirstContributor(applied_log[k].match)]) :
               Contains(t, <<LeadOf(applied_log[k].match.original)>>))
        => applied_log[k].after[FirstContributor(applied_log[k].match)]
              # applied_log[k].before[FirstContributor(applied_log[k].match)]

\* the occurrence a match is about: its token, the instruction its span
\* starts in and where in that instruction's text it starts
Occurrence(m) ==
    LET w == CHOOSE v \in 1..Len(WindowMembers(m.window_start)) :
                 Contributes(m, v) /\ ContributorsBefore(m, v) = 0
    IN << m.original,
          Participant(WindowMembers(m.window_start)[w]),
          m.match_start - MemberOffset(WindowMembers(m.window_start), w) >>

\* C28: each occurrence of a cross-instruction token is rewritten at most
\* once per engine call: no two applied substitutions that changed the list
\* are for the same occurrence, however many windows and decimal-recovery
\* expressions report it.
C28_OccurrenceRewrittenOnce ==
    \A k1 \in 1..Len(applied_log), k2 \in 1..Len(applied_log) :
        (/\ k1 < k2
         /\ applied_log[k1].before # applied_log[k1].after
         /\ applied_log[k2].before # applied_log[k2].after)
        => Occurrence(applied_log[k1].match) # Occurrence(applied_log[k2].match)

(***************************************************************************)
(* SpecClean: a caller runs _clean_special_chars on any short string and   *)
(* then on what it returned.                                               *)
(***************************************************************************)
MaxRaw == 3

\* the characters of the raw strings: letters, the six codes with a rule, a
\* newline, a tab, and two characters that are not in string.printable
RawChars == {"a", "f", "i", "FF", "VT", "SO", "SI", "CR", "US", "LF", "TAB",
             "NUL", "EACUTE"}

RawStrings == SeqsUpTo(RawChars, MaxRaw)

CleanInit ==
    /\ callee = "_clean_special_chars"
    /\ call_args \in {<<raw>> : raw \in RawStrings}
    /\ call_locals = <<>>
    /\ returned = [done |-> FALSE, value |-> <<>>]
    /\ mapping = <<>>
    /\ V2Idle
    /\ EngineIdle
    /\ AppIdle
    /\ ParIdle

\* cleaned = _clean_special_chars(raw)
CleanRaw ==
    /\ callee = "_clean_special_chars"
    /\ ~returned.done
    /\ returned' = [done |-> TRUE, value |-> clean_special_chars(call_args[1])]
    /\ callee' = "_clean_special_chars"
    /\ UNCHANGED <<mapping, call_args, call_locals>>
    /\ UNCHANGED v2vars
    /\ UNCHANGED engvars
    /\ UNCHANGED appvars
    /\ UNCHANGED parvars

\* the caller cleans the cleaned string again
CleanCleaned ==
    /\ callee = "_clean_special_chars"
    /\ returned.done
    /\ Len(call_args) = 1
    /\ call_args' = <<call_args[1], returned.value>>
    /\ returned' = [done |-> TRUE, value |-> clean_special_chars(returned.value)]
    /\ callee' = "_clean_special_chars"
    /\ UNCHANGED <<mapping, call_locals>>
    /\ UNCHANGED v2vars
    /\ UNCHANGED engvars
    /\ UNCHANGED appvars
    /\ UNCHANGED parvars

CleanNext ==
    \/ CleanRaw
    \/ CleanCleaned

SpecClean == CleanInit /\ [][CleanNext]_vars

(***************************************************************************)
(* Claim about the Token Cleaner (SpecClean)                               *)
(***************************************************************************)
\* what the rules give for one character
Expansion(c) ==
    IF c = "FF" THEN <<"f", "i">>
    ELSE IF c = "VT" THEN <<"f", "l">>
    ELSE IF c = "SO" THEN <<"f", "f">>
    ELSE IF c = "SI" THEN <<"f", "f", "i">>
    ELSE IF c \in {"CR", "US"} THEN <<>>
    ELSE IF c \in StringPrintable \/ c = "LF" THEN <<c>>
    ELSE <<>>

\* the rules applied character by character
Expanded(s) == Join([i \in 1..Len(s) |-> Expansion(s[i])])

PlainChars == {"a", "b", "c", "B", "f", "i", "FF"}

PlainStrings == SeqsUpTo(PlainChars, MaxRaw)

PlainInit ==
    /\ callee = "_apply_v2_processor"
    /\ call_args \in {<<raw>> : raw \in PlainStrings}
    /\ call_locals = <<>>
    /\ returned = [done |-> FALSE, value |-> <<>>]
    /\ mapping \in V2Mappings
    /\ V2Idle
    /\ EngineIdle
    /\ AppIdle
    /\ ParIdle

\* the string an instruction holds after _apply_v2_processor handled it
TextWritten(r) ==
    IF r.op.operands[1].kind = "array" THEN r.arrays[r.op.operands[1].ref][1].s
    ELSE r.op.operands[1].s

\* _apply_v2_processor([([TextStringObject(s)], b"Tj")])
RewriteShowString ==
    /\ callee = "_apply_v2_processor"
    /\ ~returned.done
    /\ Len(returned.value) = 0
    /\ returned' = [done |-> FALSE,
                    value |-> <<TextWritten(v2_instruction(
                                   Instruction(<<StringOperand(call_args[1])>>, "Tj"),
                                   <<>>))>>]
    /\ UNCHANGED <<mapping, callee, call_args, call_locals>>
    /\ UNCHANGED v2vars
    /\ UNCHANGED engvars
    /\ UNCHANGED appvars
    /\ UNCHANGED parvars

\* _apply_v2_processor([([ArrayObject([TextStringObject(s)])], b"TJ")])
RewritePositionedArray ==
    /\ callee = "_apply_v2_processor"
    /\ ~returned.done
    /\ Len(returned.value) = 1
    /\ returned' = [done |-> TRUE,
                    value |-> Append(returned.value,
                                TextWritten(v2_instruction(
                                   Instruction(<<ArrayRef(1)>>, "TJ"),
                                   << <<TextStringObject(call_args[1])>> >>)))]
    /\ UNCHANGED <<mapping, callee, call_args, call_locals>>
    /\ UNCHANGED v2vars
    /\ UNCHANGED engvars
    /\ UNCHANGED appvars
    /\ UNCHANGED parvars

PlainNext ==
    \/ RewriteShowString
    \/ RewritePositionedArray

SpecPlain == PlainInit /\ [][PlainNext]_vars

\* C26: for every string s, the text written for the show-string
\* instruction [s] equals the text written for the one-segment positioned
\* array [[s]], including when s holds ligature control codes.
C26_ShowStringLikeOneSegmentArray ==
    (callee = "_apply_v2_processor" /\ returned.done)
        => returned.value[1] = returned.value[2]

(***************************************************************************)
(* SpecOcr: _match_ocr_words, statement by statement.  An OCRWord is its   *)
(* norm; its rect is the set holding its index, and the union of rects is  *)
(* the union of these sets (the padding of the union and font_size are     *)
(* left out).                                                              *)
(***************************************************************************)
MaxWords == 3

\* norms of OCR words
Norms == {"a", "b"}

OcrWordLists == SeqsUpTo(Norms, MaxWords)

\* token lists of prepared entries; the empty one is what the guard
\* `span == 0` is for
TokenLists == { <<"a">>, <<"b">>, <<"a", "b">>, <<"a", "a">>, <<>> }

PreparedEntries == [tokens : TokenLists, replacement : {"X", "Y"}]

PreparedLists == SeqsUpTo(PreparedEntries, MaxEntries)

\* a variant of claimed that never finds an index in used
claimed_never(used, i, span) == FALSE

\* any(idx in used for idx in range(i, i + span))
claimed(used, i, span) == \E idx \in i..(i + span - 1) : idx \in used

\* norms[i : i + span]
window_norms(words, i, span) == Slice(words, i, i + span)

\* OCRMatch(rect=union, replacement=replacement, ...)
OCRMatch(i, span, replacement) ==
    [rect |-> UNION {{i + offset} : offset \in 0..(span - 1)},
     replacement |-> replacement]

OcrInit ==
    /\ callee = "_match_ocr_words"
    /\ call_args \in [words : OcrWordLists, prepared : PreparedLists]
    /\ call_locals = [at |-> "for", entry |-> 1, i |-> 0, used |-> {}, matches |-> <<>>]
    /\ returned = [done |-> FALSE, value |-> <<>>]
    /\ mapping = <<>>
    /\ V2Idle
    /\ EngineIdle
    /\ AppIdle
    /\ ParIdle

\* `if span == 0 or span > len(words): continue`
OcrSkipEntry ==
    /\ callee = "_match_ocr_words"
    /\ ~returned.done
    /\ call_locals.at = "for"
    /\ call_locals.entry <= Len(call_args.prepared)
    /\ \E span \in {Len(call_args.prepared[call_locals.entry].tokens)} :
          span = 0 \/ span > Len(call_args.words)
    /\ call_locals' = [call_locals EXCEPT !.entry = @ + 1]
    /\ UNCHANGED <<mapping, callee, call_args, returned>>
    /\ UNCHANGED v2vars
    /\ UNCHANGED engvars
    /\ UNCHANGED appvars
    /\ UNCHANGED parvars

\* `i = 0` for the next entry of prepared
OcrEnterEntry ==
    /\ callee = "_match_ocr_words"
    /\ ~returned.done
    /\ call_locals.at = "for"
    /\ call_locals.entry <= Len(call_args.prepared)
    /\ \E span \in {Len(call_args.prepared[call_locals.entry].tokens)} :
          span # 0 /\ span <= Len(call_args.words)
    /\ call_locals' = [call_locals EXCEPT !.at = "while", !.i = 0]
    /\ UNCHANGED <<mapping, callee, call_args, returned>>
    /\ UNCHANGED v2vars
    /\ UNCHANGED engvars
    /\ UNCHANGED appvars
    /\ UNCHANGED parvars

\* one turn of `while i <= len(words) - span`
OcrWhileTurn ==
    /\ callee = "_match_ocr_words"
    /\ ~returned.done
    /\ call_locals.at = "while"
    /\ \E e \in {call_args.prepared[call_locals.entry]} :
          /\ call_locals.i <= Len(call_args.words) - Len(e.tokens)
          /\ \/ /\ claimed(call_locals.used, call_locals.i, Len(e.tokens))
                /\ call_locals' = [call_locals EXCEPT !.i = @ + 1]
             \/ /\ ~claimed(call_locals.used, call_locals.i, Len(e.tokens))
                /\ window_norms(call_args.words, call_locals.i, Len(e.tokens)) = e.tokens
                /\ call_locals' =
                      [call_locals EXCEPT
                         !.matches = Append(@, OCRMatch(call_locals.i, Len(e.tokens),
                                                        e.replacement)),
                         !.used = @ \cup (call_locals.i..(call_locals.i + Len(e.tokens) - 1)),
                         !.i = @ + Len(e.tokens)]
             \/ /\ ~claimed(call_locals.used, call_locals.i, Len(e.tokens))
                /\ window_norms(call_args.words, call_locals.i, Len(e.tokens)) # e.tokens
                /\ call_locals' = [call_locals EXCEPT !.i = @ + 1]
    /\ UNCHANGED <<mapping, callee, call_args, returned>>
    /\ UNCHANGED v2vars
    /\ UNCHANGED engvars
    /\ UNCHANGED appvars
    /\ UNCHANGED parvars

\* the while loop ends: next entry
OcrLeaveWhile ==
    /\ callee = "_match_ocr_words"
    /\ ~returned.done
    /\ call_locals.at = "while"
    /\ call_locals.i > Len(call_args.words)
                        - Len(call_args.prepared[call_locals.entry].tokens)
    /\ call_locals' = [call_locals EXCEPT !.at = "for", !.entry = @ + 1]
    /\ UNCHANGED <<mapping, callee, call_args, returned>>
    /\ UNCHANGED v2vars
    /\ UNCHANGED engvars
    /\ UNCHANGED appvars
    /\ UNCHANGED parvars

\* `return matches`
OcrReturn ==
    /\ callee = "_match_ocr_words"
    /\ ~returned.done
    /\ call_locals.at = "for"
    /\ call_locals.entry > Len(call_args.prepared)
    /\ returned' = [done |-> TRUE, value |-> call_locals.matches]
    /\ UNCHANGED <<mapping, callee, call_args, call_locals>>
    /\ UNCHANGED v2vars
    /\ UNCHANGED engvars
    /\ UNCHANGED appvars
    /\ UNCHANGED parvars

OcrNext ==
    \/ OcrSkipEntry
    \/ OcrEnterEntry
    \/ OcrWhileTurn
    \/ OcrLeaveWhile
    \/ OcrReturn

SpecOcr == OcrInit /\ [][OcrNext]_vars

(***************************************************************************)
(* Claim about OCR word matching (SpecOcr)                                 *)
(***************************************************************************)
\* the matches built so far, and after the return the matches returned
OcrMatches == IF returned.done THEN returned.value ELSE call_locals.matches

\* rect covers the run of words start .. start + Len(tokens) - 1 and the
\* norms of these words are the tokens
CoversRunOf(rect, tokens, words) ==
    /\ tokens # <<>>
    /\ \E start \in 0..(Len(words) - Len(tokens)) :
          /\ rect = start..(start + Len(tokens) - 1)
          /\ \A p \in 1..Len(tokens) : words[start + p] = tokens[p]

\* C30: every match covers a run of consecutive words whose normalised
\* forms equal the token sequence of a prepared entry with the match's
\* replacement; no word index is covered by two matches, so a run claimed
\* for an earlier entry is never claimed again for a later one.
C30_OcrMatchesAreDisjointRuns ==
    callee = "_match_ocr_words" =>
        /\ \A k \in 1..Len(OcrMatches) :
              \E e \in 1..Len(call_args.prepared) :
                 /\ call_args.prepared[e].replacement = OcrMatches[k].replacement
                 /\ CoversRunOf(OcrMatches[k].rect, call_args.prepared[e].tokens,
                                call_args.words)
        /\ \A k1 \in 1..Len(OcrMatches), k2 \in 1..Len(OcrMatches) :
              k1 # k2 => OcrMatches[k1].rect \cap OcrMatches[k2].rect = {}
        /\ returned.done =>
              call_locals.used = UNION {OcrMatches[k].rect : k \in 1..Len(OcrMatches)}

\* the function returned one match, for the first entry; the tokens of
\* the second entry occur in the words it covers and were not claimed again
C30_Witness ==
    /\ callee = "_match_ocr_words"
    /\ returned.done
    /\ call_args.words = <<"a", "b">>
    /\ Len(call_args.prepared) = 2
    /\ call_args.prepared[1] = [tokens |-> <<"a", "b">>, replacement |-> "X"]
    /\ call_args.prepared[2] = [tokens |-> <<"b">>, replacement |-> "Y"]
    /\ returned.value = <<[rect |-> {0, 1}, replacement |-> "X"]>>

\* two entries matched runs next to each other
C30_TwoEntriesWitness ==
    /\ callee = "_match_ocr_words"
    /\ returned.done
    /\ Len(returned.value) = 2
    /\ returned.value[1].replacement # returned.value[2].replacement
    /\ returned.value[1].rect = {1, 2}
    /\ returned.value[2].rect = {0}

(***************************************************************************)
(* Claim about two interleaved invocations (SpecPar)                       *)
(***************************************************************************)
\* the ArrayObjects an instruction list refers to
RefsOf(operations) ==
    { operations[i].operands[j].ref :
        <<i, j>> \in { p \in (1..Len(operations)) \X (1..1) :
                         /\ operations[p[1]].operands # <<>>
                         /\ operations[p[1]].operands[p[2]].kind = "array" } }

\* everything thread t holds of the heap
HeldBy(t) ==
    RefsOf(threads[t].given) \cup RefsOf(threads[t].operations)
        \cup RefsOf(threads[t].result.operations)

\* the invocation of thread t run from its start with no other thread
RunAlone(t) ==
    engine_run(Stepped([NewThread(threads[t].input,
                                  Load(threads[t].input.stream,
                                       Len(threads[t].input.stream)).operations)
                           EXCEPT !.pc = "phase1"],
                       Load(threads[t].input.stream,
                            Len(threads[t].input.stream)).arrays))

\* what an invocation returned, by value
ReturnOf(e, heap) ==
    [operations |-> ValueOf(e.result.operations, heap), modified |-> e.result.modified]

\* C16: two invocations with their own instruction lists and mapping tables,
\* interleaved in two threads, each return the result they return when run
\* alone; they hold no ArrayObject in common, and the only object both may
\* hold is the logger, on which no result depends.
C16_RequestIsolation ==
    /\ \A t \in Threads :
          /\ threads[t].pc = "done"
                => ReturnOf(threads[t], par_heap) = threads[t].input.alone
          /\ (mapping = threads[t].mapping /\ threads[t].pc = "phase1")
                => ReturnOf(RunAlone(t).thread, RunAlone(t).heap)
                      = threads[t].input.alone
    /\ HeldBy(1) \cap HeldBy(2) = {}

\* both invocations returned after running with different mappings, both
\* changed their stream, both found _current_logger unset and created a
\* logger, and both V2 processors write to the same logger
C16_Witness ==
    /\ threads # <<>>
    /\ threads[1].pc = "done"
    /\ threads[2].pc = "done"
    /\ threads[1].mapping # threads[2].mapping
    /\ threads[1].result.modified
    /\ threads[2].result.modified
    /\ Len(loggers) = 2
    /\ threads[1].v2_logger = threads[2].v2_logger

\* the arrays the two invocations created alternate in the heap: an array of
\* the second lies between two arrays of the first
C16_InterleavedWitness ==
    /\ threads # <<>>
    /\ threads[1].pc = "done"
    /\ threads[2].pc = "done"
    /\ threads[1].mapping # threads[2].mapping
    /\ \E a \in RefsOf(threads[1].result.operations),
          b \in RefsOf(threads[2].result.operations),
          c \in RefsOf(threads[1].result.operations) :
            /\ a > Len(threads[1].given) + Len(threads[2].given)
            /\ a < b
            /\ b < c

(***************************************************************************)
(* Claims about apply_word_mapping and the overlay pipeline                *)
(***************************************************************************)
\* the calls that receive the mapping for processing
ModeCalls == {"_apply_font_mode_mapping", "apply_image_ocr_mapping",
              "_apply_overlay_mode_mapping", "apply_tfont_mapping",
              "_apply_content_stream_mapping", "process_pdf_with_pymupdf"}

\* the positions of trace that hold a call named in names
CallsOf(names) == {i \in 1..Len(trace) : trace[i].call \in names}

\* entry i of the user's mapping is valid after stripping
ValidEntry(i) == strip(user_mapping[i].k) # <<>> /\ strip(user_mapping[i].v) # <<>>

\* the last valid entry of the user's mapping with the stripped key key
LastValidFor(key) ==
    CHOOSE i \in 1..Len(user_mapping) :
        /\ ValidEntry(i) /\ strip(user_mapping[i].k) = key
        /\ \A j \in (i + 1)..Len(user_mapping) :
              ~(ValidEntry(j) /\ strip(user_mapping[j].k) = key)

\* table is the user's mapping with keys and values stripped and the
\* entries that are empty after stripping left out
IsCleaned(table) ==
    /\ \A i \in 1..Len(table) :
          /\ strip(table[i].k) = table[i].k /\ strip(table[i].v) = table[i].v
          /\ table[i].k # <<>> /\ table[i].v # <<>>
          /\ \A j \in 1..Len(table) : i # j => table[i].k # table[j].k
          /\ \E u \in 1..Len(user_mapping) :
                ValidEntry(u) /\ strip(user_mapping[u].k) = table[i].k
          /\ table[i].v = strip(user_mapping[LastValidFor(table[i].k)].v)
    /\ \A u \in 1..Len(user_mapping) :
          ValidEntry(u) => DictHas(table, strip(user_mapping[u].k))

\* C13: every mapping handed to a processing mode is the user's mapping
\* with keys and values stripped and without the entries that are empty
\* after stripping; when no entry survives, the call returns the PDF handed
\* in and no processing mode is called.
C13_MappingCleaning ==
    /\ \A i \in CallsOf(ModeCalls) : IsCleaned(trace[i].mapping)
    /\ (app_pc # "call" /\ \A u \in 1..Len(user_mapping) : ~ValidEntry(u))
          => /\ app_pc = "returned"
             /\ outcome = [kind |-> "return", value |-> pdf_bytes]
             /\ CallsOf(ModeCalls) = {}

\* C13 witness: a mode received the mapping of a call whose mapping had a
\* padded entry and an entry that is blank after stripping
C13_Witness ==
    /\ CallsOf(ModeCalls) # {}
    /\ Len(user_mapping) = 2
    /\ \E i \in 1..2 : ~ValidEntry(i)
    /\ \E i \in 1..2 :
          /\ ValidEntry(i)
          /\ strip(user_mapping[i].k) # user_mapping[i].k
          /\ strip(user_mapping[i].v) # user_mapping[i].v
    /\ Len(clean_mapping) = 1

\* a call whose entries are all blank returned the PDF handed in
C13_NothingValidWitness ==
    /\ app_pc = "returned"
    /\ user_mapping # <<>>
    /\ \A u \in 1..Len(user_mapping) : ~ValidEntry(u)
    /\ \E u \in 1..Len(user_mapping) :
          user_mapping[u].k # <<>> /\ user_mapping[u].v # <<>>

\* the handlers apply_word_mapping routes to
ModeHandlers == {"_apply_font_mode_mapping", "apply_image_ocr_mapping",
                 "_apply_overlay_mode_mapping"}

\* the handler a mode selects
HandlerFor(how) ==
    IF how = "font" THEN "_apply_font_mode_mapping"
    ELSE IF how = "ocr" THEN "apply_image_ocr_mapping"
    ELSE "_apply_overlay_mode_mapping"

\* the handler calls made by apply_word_mapping itself (the font handler
\* calls the overlay pipeline only after apply_tfont_mapping)
StartedHandlers ==
    {i \in CallsOf(ModeHandlers) :
        \A j \in 1..(i - 1) : trace[j].call # "apply_tfont_mapping"}

HasValidEntry == \E u \in 1..Len(user_mapping) : ValidEntry(u)

\* C14: a call with a valid entry starts exactly one handler, the one its
\* mode selects (ocr with dpi 220 and min_confidence 60, font, otherwise
\* overlay), after the mode was logged; finalize_run is called once, as
\* the last call, after the handler returned (its bytes are logged and
\* returned) or raised (the error is logged and raised again), and not
\* while the handler runs.
C14_RoutingAndFinalisation ==
    (app_pc # "call" /\ HasValidEntry) =>
        /\ Cardinality(StartedHandlers) = 1
        /\ \A i \in StartedHandlers :
              /\ trace[i].call = HandlerFor(mode)
              /\ trace[i].bytes = pdf_bytes
              /\ trace[i].mapping = clean_mapping
              /\ mode = "ocr" => trace[i].opts = <<220, 60>>
              /\ \E j \in 1..(i - 1) : trace[j] = Log("log_mode_selection", mode, <<>>, <<>>)
        /\ app_pc \notin {"returned", "raised"} =>
              /\ CallsOf({"finalize_run"}) = {}
              /\ outcome.kind = "none"
        /\ app_pc = "returned" =>
              /\ CallsOf({"finalize_run"}) = {Len(trace)}
              /\ outcome.kind = "return"
              /\ trace[Len(trace) - 1] = Log("log_output_pdf", "", outcome.value, <<>>)
              /\ CallsOf({"log_output_pdf"}) = {Len(trace) - 1}
              /\ mode = "ocr" => outcome.value = Append(pdf_bytes, "ocr")
              /\ outcome.value # pdf_bytes
        /\ app_pc = "raised" =>
              /\ CallsOf({"finalize_run"}) = {Len(trace)}
              /\ outcome.kind = "raise"
              /\ trace[Len(trace) - 1] = LogError(outcome.value[1], mode)
              /\ CallsOf({"log_output_pdf"}) = {}

\* C14 witness: a call in mode ocr with a padded entry returned the bytes
\* of the OCR handler
C14_Witness ==
    /\ app_pc = "returned"
    /\ mode = "ocr"
    /\ HasValidEntry
    /\ user_mapping # clean_mapping
    /\ outcome.value = <<"pdf", "ocr">>

\* a call whose handler raised
C14_RaisedWitness == app_pc = "raised" /\ mode = "ocr"

\* a call in a mode that is neither font nor ocr nor overlay returned the
\* bytes of the overlay pipeline
C14_OtherModeWitness ==
    app_pc = "returned" /\ mode = "auto" /\ outcome.value # pdf_bytes

\* a call in mode font whose font step failed returned the bytes of the
\* overlay pipeline
C14_FontFallbackWitness ==
    /\ app_pc = "returned" /\ mode = "font"
    /\ CallsOf({"_apply_overlay_mode_mapping"}) # {}

\* what the steps of the overlay pipeline make of the PDF handed in
Rewritten == Append(pdf_bytes, "rewritten")
Sanitized == Append(Rewritten, "sanitized")
FontBytes == Append(pdf_bytes, "pymupdf-font")

\* the rewrite recorded at position r yielded nothing (the pipeline then
\* warns before it falls back)
YieldedNothing(r) == r < Len(trace) /\ trace[r + 1].call = "warning"

\* C15: the overlay targets are captured from the PDF handed in before the
\* rewrite; after a successful rewrite the rewritten bytes are sanitised,
\* then exactly the captured overlays, in order, are applied to the
\* sanitised bytes and that result is returned; when the rewrite yields
\* nothing, PyMuPDF's font mode runs on the PDF handed in and no overlay is
\* applied.
C15_OverlayPipelineOrder ==
    \A r \in CallsOf({"_apply_content_stream_mapping"}) :
        /\ trace[r] = Step("_apply_content_stream_mapping", pdf_bytes, clean_mapping, <<>>)
        /\ r > 1
        /\ trace[r - 1] = Step("_collect_overlay_targets", pdf_bytes, <<>>, overlays)
        /\ CallsOf({"_apply_content_stream_mapping"}) = {r}
        /\ CallsOf({"_collect_overlay_targets"}) = {r - 1}
        /\ IF YieldedNothing(r)
           THEN /\ CallsOf({"_apply_overlays"}) = {}
                /\ \A z \in CallsOf({"_sanitize_text_layer"}) : trace[z].bytes = FontBytes
                /\ \A f \in CallsOf({"process_pdf_with_pymupdf"}) :
                      /\ f = r + 2
                      /\ trace[f] = Call("process_pdf_with_pymupdf", "font", pdf_bytes,
                                         clean_mapping, <<>>, <<>>)
                /\ app_pc = "returned" =>
                      /\ r + 2 \in CallsOf({"process_pdf_with_pymupdf"})
                      /\ outcome.value = Append(FontBytes, "sanitized")
           ELSE /\ CallsOf({"process_pdf_with_pymupdf"}) = {}
                /\ \A z \in CallsOf({"_sanitize_text_layer"}) :
                      z = r + 1 /\ trace[z].bytes = Rewritten
                /\ \A a \in CallsOf({"_apply_overlays"}) :
                      /\ a = r + 2
                      /\ r + 1 \in CallsOf({"_sanitize_text_layer"})
                      /\ trace[a] = Step("_apply_overlays", Sanitized, <<>>,
                                         trace[r - 1].overlays)
                /\ app_pc = "returned" =>
                      /\ r + 1 \in CallsOf({"_sanitize_text_layer"})
                      /\ IF trace[r - 1].overlays = <<>>
                         THEN /\ CallsOf({"_apply_overlays"}) = {}
                              /\ outcome.value = Sanitized
                         ELSE /\ r + 2 \in CallsOf({"_apply_overlays"})
                              /\ outcome.value = Append(Sanitized, "overlaid")
                                                    \o trace[r - 1].overlays

\* C15 witness: two overlays were captured, the rewrite succeeded, and the
\* pipeline returned the sanitised bytes with the two overlays applied in
\* the order of capture
C15_Witness ==
    /\ app_pc = "returned"
    /\ overlays = <<"t2", "t1">>
    /\ outcome.value = <<"pdf", "rewritten", "sanitized", "overlaid", "t2", "t1">>

\* overlays were captured, the rewrite yielded nothing, and the pipeline
\* returned the bytes of the font fallback
C15_FallbackWitness ==
    /\ app_pc = "returned"
    /\ overlays # <<>>
    /\ outcome.value = <<"pdf", "pymupdf-font", "sanitized">>

====
